---- MODULE Spec2Model ----
(***************************************************************************)
(* Verification model of backuppc_pool_reader: the attribute decoder       *)
(* (decode_attribut.rs), the stream decompressor (compress.rs) and the     *)
(* view (view.rs): merge/fill engine, share resolution and listing cache.  *)
(*                                                                         *)
(* Bytes are the integers 0..255, byte strings and character strings are   *)
(* sequences.  Each component has its own specification over its own       *)
(* variables; the variables of the other components stay at their idle     *)
(* value.                                                                  *)
(***************************************************************************)
EXTENDS Integers, Sequences, FiniteSets, TLC

VARIABLES
    attrInput,     \* decoder: the attribute stream under decode, as built
    attrResult,    \* decoder: what AttributeFile::read_from returned
    pool,          \* decompressor: the pool file, its frames and buffering
    rd,            \* decompressor: the BackupPCReader over the pool file
    delivered,     \* decompressor: the bytes the reads have returned so far
    lastRead,      \* decompressor: the last BackupPCReader::read call
    disk,          \* view: the backups, directories, tables and shares on disk
    cache,         \* view: BackupPC.cache, the LRU cache of listings
    mergeOut,      \* view: the last list_file_from_dir call and its result
    listOut,       \* view: the last list call and its result
    pfs,           \* pool: the files of the pool on disk, path to bytes
    findOut,       \* pool: the last find_file_in_backuppc call and its result
    fileOut,       \* view: the last read_file call and its result
    manifestFile,  \* hosts: the backups file of a host
    backupsOut,    \* hosts: the last Hosts::list_backups call and its result
    tree,          \* search: the directories under topdir/pc and their entries
    attrOut,       \* search: the last call of the attribute locator and its result
    fsEnv,         \* adapter: the view, the hash and the build the adapter runs on
    bpcfs,         \* adapter: BackupPCFS, its inodes, cache and opened maps
    dirOut,        \* adapter: the last readdir or lookup request and its reply
    session,       \* adapter: the readdir sequence of the kernel, start to end
    exposed,       \* adapter: every (inode, path) a reply has given out so far
    readOut,       \* adapter: the last open, read or release request and its reply
    call,          \* helpers: the helper function called and its arguments
    ret            \* helpers: what the call returned

decodeVars == <<attrInput, attrResult>>
readerVars == <<pool, rd, delivered, lastRead>>
viewVars == <<disk, cache, mergeOut, listOut>>
poolVars == <<pfs, findOut>>
hostsVars == <<manifestFile, backupsOut>>
searchVars == <<tree, attrOut>>
fsVars == <<fsEnv, bpcfs, dirOut, session, exposed, readOut>>
utilVars == <<call, ret>>
extVars == <<poolVars, fileOut, hostsVars, searchVars, fsVars, utilVars>>
vars == <<attrInput, attrResult, pool, rd, delivered, lastRead,
          disk, cache, mergeOut, listOut, extVars>>

(***************************************************************************)
(* Generic helpers                                                         *)
(***************************************************************************)
Range(s) == {s[i] : i \in 1..Len(s)}

RECURSIVE Flatten(_)
Flatten(ss) == IF ss = <<>> THEN <<>> ELSE Head(ss) \o Flatten(Tail(ss))

Min(a, b) == IF a < b THEN a ELSE b

\* All sequences over S of length at most n.
SeqsUpTo(S, n) == UNION {[1..k -> S] : k \in 0..n}

(***************************************************************************)
(* decode_attribut.rs : the reader primitives                              *)
(*                                                                         *)
(* A reader is a byte sequence s and the count pos of bytes consumed.      *)
(***************************************************************************)

\* Read::read_exact on a reader with n bytes wanted: a short stream gives
\* UnexpectedEof and leaves the reader at its end.
ReadExact(s, pos, n) ==
    IF pos + n <= Len(s)
    THEN [ok |-> TRUE, bytes |-> SubSeq(s, pos + 1, pos + n), pos |-> pos + n]
    ELSE [ok |-> FALSE, bytes |-> <<>>, pos |-> Len(s)]

\* Number of significant bits of a 7-bit group.
RECURSIVE BitLen(_)
BitLen(v) == IF v = 0 THEN 0 ELSE 1 + BitLen(v \div 2)

\* A faulty test that lets every group pass; the failure of a group that
\* loses bits (C22) must tell it from ShiftLoses.
ShiftNeverLoses(val, shift) == FALSE

\* val << shift >> shift != val on a u64, for shift < 64: the group loses
\* bits exactly when its significant bits pass bit 63.
ShiftLoses(val, shift) == shift < 64 /\ BitLen(val) + shift > 64

\* A faulty accumulation that shifts by 8 bits per group instead of 7; the
\* decoding of multi-byte varints (C7) must tell it from GroupsValue.
RECURSIVE GroupsValueShift8(_)
GroupsValueShift8(groups) ==
    IF groups = <<>> THEN 0
    ELSE Head(groups) + 256 * GroupsValueShift8(Tail(groups))

\* result |= val << shift, accumulated over the groups read (least
\* significant first).
RECURSIVE GroupsValue(_)
GroupsValue(groups) ==
    IF groups = <<>> THEN 0
    ELSE Head(groups) + 128 * GroupsValue(Tail(groups))

\* Significant bits of the accumulated u64.
RECURSIVE GroupsBits(_)
GroupsBits(groups) ==
    IF groups = <<>> THEN 0
    ELSE LET last == groups[Len(groups)]
         IN IF last = 0 THEN GroupsBits(SubSeq(groups, 1, Len(groups) - 1))
            ELSE 7 * (Len(groups) - 1) + BitLen(last)

\* The bits of the accumulated u64: bit b of group i is bit 7 * i + b.
GroupsBitSet(groups) ==
    {7 * (p[1] - 1) + p[2] :
        p \in {q \in (1..Len(groups)) \X (0..6) : (groups[q[1]] \div 2^q[2]) % 2 = 1}}

\* The accumulated u64 as a value of the model: the number itself while it
\* has at most 31 bits (the integers of the model checker), the set of
\* its bits beyond.
ResultOf(groups) ==
    IF GroupsBits(groups) <= 31 THEN GroupsValue(groups)
    ELSE [bits |-> GroupsBitSet(groups)]

\* The messages of the io::Error values read_varint builds; both have the
\* kind InvalidData.
MsgNone == ""
MsgEof == "failed to fill whole buffer"
MsgCorrupted == "Varint too large: probably corrupted data"
MsgTarget == "Varint too large for the target type"

\* T::from_u64(result): Some exactly when the value fits the target width.
FromU64Fits(groups, bits) == GroupsBits(groups) <= bits

\* The loop of VarintRead::read_varint.
RECURSIVE VarintLoop(_, _, _, _)
VarintLoop(s, pos, shift, groups) ==
    IF pos >= Len(s)
    THEN [kind |-> "UnexpectedEof", msg |-> MsgEof, groups |-> <<>>, pos |-> Len(s)]
    ELSE LET byte == s[pos + 1]
             val  == byte % 128
         IN IF shift >= 64 \/ ShiftLoses(val, shift)
            THEN [kind |-> "InvalidData", msg |-> MsgCorrupted, groups |-> <<>>,
                  pos |-> pos + 1]
            ELSE IF byte < 128
                 THEN [kind |-> "Ok", msg |-> MsgNone, groups |-> Append(groups, val),
                       pos |-> pos + 1]
                 ELSE VarintLoop(s, pos + 1, shift + 7, Append(groups, val))

\* The return of read_varint::<T>() once the loop has ended with r.
VarintResult(r, bits) ==
    IF r.kind # "Ok" THEN [kind |-> r.kind, msg |-> r.msg, val |-> 0, pos |-> r.pos]
    ELSE IF FromU64Fits(r.groups, bits)
         THEN [kind |-> "Ok", msg |-> MsgNone, val |-> ResultOf(r.groups), pos |-> r.pos]
         ELSE [kind |-> "InvalidData", msg |-> MsgTarget, val |-> 0, pos |-> r.pos]

\* read_varint::<T>() for a target type of `bits` bits.
ReadVarint(s, pos, bits) == VarintResult(VarintLoop(s, pos, 0, <<>>), bits)

\* Result::unwrap_or(d): the error is dropped, the reader keeps the
\* position the failed read left.
UnwrapOr(r, d) == [val |-> IF r.kind = "Ok" THEN r.val ELSE d, pos |-> r.pos]

\* read_varint().unwrap_or(d)
VarintOr(s, pos, bits, d) == UnwrapOr(ReadVarint(s, pos, bits), d)

U16 == 16
U32 == 32
U64 == 64
Usize == 64
I32 == 31

\* String::from_utf8(bytes).unwrap_or_default(); the byte strings of the
\* model hold no multi-byte sequence, so a byte >= 0x80 is invalid UTF-8.
FromUtf8OrDefault(bytes) ==
    IF \A i \in 1..Len(bytes) : bytes[i] < 128 THEN bytes ELSE <<>>
(***************************************************************************)
(* decode_attribut.rs : FileAttributes::read_from                          *)
(***************************************************************************)

\* The match on the type code; "Invalid" is the arm that returns
\* InvalidData.
FileTypeOfCode(code) ==
    CASE code = 0 -> "File"
      [] code = 1 -> "Hardlink"
      [] code = 2 -> "Symlink"
      [] code = 3 -> "Chardev"
      [] code = 4 -> "Blockdev"
      [] code = 5 -> "Dir"
      [] code = 6 -> "Fifo"
      [] code = 8 -> "Socket"
      [] code = 7 \/ code = 9 -> "Unknown"
      [] code = 10 -> "Deleted"
      [] OTHER -> "Invalid"

\* A length read with unwrap_or_default, then read_exact of that many bytes.
ReadLenBytes(s, len) == ReadExact(s, len.pos, len.val)

ReadSized(s, pos) == ReadLenBytes(s, VarintOr(s, pos, Usize, 0))

\* The xattr loop: `left` entries still to read; XattrKey goes on once the
\* key is read, XattrValue once the value is read.
RECURSIVE XattrLoop(_, _, _, _)
XattrValue(s, left, acc, key, value) ==
    IF ~value.ok THEN [ok |-> FALSE, xattrs |-> acc, pos |-> value.pos]
    ELSE XattrLoop(s, value.pos, left - 1,
             Append(acc, [key |-> FromUtf8OrDefault(key.bytes),
                          value |-> FromUtf8OrDefault(value.bytes)]))

XattrKey(s, left, acc, key) ==
    IF ~key.ok THEN [ok |-> FALSE, xattrs |-> acc, pos |-> key.pos]
    ELSE XattrValue(s, left, acc, key, ReadSized(s, key.pos))

XattrLoop(s, pos, left, acc) ==
    IF left = 0 THEN [ok |-> TRUE, xattrs |-> acc, pos |-> pos]
    ELSE XattrKey(s, left, acc, ReadSized(s, pos))

NoRecord == [name |-> <<>>, type_ |-> "Unknown", compress |-> 0, mode |-> 0,
             uid |-> 0, gid |-> 0, nlinks |-> 0, mtime |-> 0, size |-> 0,
             inode |-> 0, bpc_digest |-> [len |-> 0, digest |-> <<>>],
             xattr_num_entries |-> 0, xattrs |-> <<>>]

ReadErr(kind, pos) == [ok |-> FALSE, kind |-> kind, rec |-> NoRecord, pos |-> pos]

\* The widths of mtime, mode, uid, gid, size, inode, compress, nlinks and
\* digest_len, in the order they are read, each with unwrap_or_default.
ScalarFields == <<U64, U16, U32, U32, U64, U64, U64, U32, Usize>>

RECURSIVE ReadScalars(_, _, _, _)
ReadScalars(s, pos, i, vals) ==
    IF i > Len(ScalarFields) THEN [vals |-> vals, pos |-> pos]
    ELSE ReadScalars(s, VarintOr(s, pos, ScalarFields[i], 0).pos, i + 1,
                     Append(vals, VarintOr(s, pos, ScalarFields[i], 0).val))

\* FileAttributes::read_from, step by step; each step goes on with what
\* the steps before it have read.  Only the name length, the name, an
\* invalid type code, the digest bytes and the xattr bytes fail the read
\* (`?`); every other field falls back to its default.
ReadBuild(nm, xnum, type_, sc, dg, xa) ==
    IF ~xa.ok THEN ReadErr("UnexpectedEof", xa.pos)
    ELSE [ok |-> TRUE, kind |-> "Ok", pos |-> xa.pos,
          rec |-> [name |-> FromUtf8OrDefault(nm.bytes),
                   type_ |-> type_,
                   compress |-> sc.vals[7],
                   mode |-> sc.vals[2],
                   uid |-> sc.vals[3],
                   gid |-> sc.vals[4],
                   nlinks |-> sc.vals[8],
                   mtime |-> sc.vals[1],
                   size |-> sc.vals[5],
                   inode |-> sc.vals[6],
                   bpc_digest |-> [len |-> sc.vals[9], digest |-> dg.bytes],
                   xattr_num_entries |-> xnum.val,
                   xattrs |-> xa.xattrs]]

ReadXattrs(s, nm, xnum, type_, sc, dg) ==
    IF ~dg.ok THEN ReadErr("UnexpectedEof", dg.pos)
    ELSE ReadBuild(nm, xnum, type_, sc, dg, XattrLoop(s, dg.pos, xnum.val, <<>>))

ReadDigest(s, nm, xnum, type_, sc) ==
    ReadXattrs(s, nm, xnum, type_, sc,
               IF sc.vals[9] > 0
               THEN ReadExact(s, sc.pos, sc.vals[9])
               ELSE [ok |-> TRUE, bytes |-> <<>>, pos |-> sc.pos])

ReadFields(s, nm, xnum, tcode) ==
    IF FileTypeOfCode(tcode.val) = "Invalid" THEN ReadErr("InvalidData", tcode.pos)
    ELSE ReadDigest(s, nm, xnum, FileTypeOfCode(tcode.val),
                    ReadScalars(s, tcode.pos, 1, <<>>))

ReadType(s, nm, xnum) == ReadFields(s, nm, xnum, VarintOr(s, xnum.pos, I32, 9))

ReadXattrCount(s, nm) ==
    IF ~nm.ok THEN ReadErr("UnexpectedEof", nm.pos)
    ELSE ReadType(s, nm, VarintOr(s, nm.pos, U64, 0))

ReadName(s, flen) ==
    IF flen.kind # "Ok" THEN ReadErr(flen.kind, flen.pos)
    ELSE ReadXattrCount(s, ReadExact(s, flen.pos, flen.val))

\* FileAttributes::read_from: one record from position pos.
FileAttributesReadFrom(s, pos) == ReadName(s, ReadVarint(s, pos, Usize))

(***************************************************************************)
(* decode_attribut.rs : AttributeFile::read_from                           *)
(***************************************************************************)
BPC_ATTRIB_TYPE_XATTR == 391533395   \* 0x1756_5353

\* A faulty header read, little-endian; the magic check (C8) must tell it
\* from U32BigEndian.
U32LittleEndian(b) == ((b[4] * 256 + b[3]) * 256 + b[2]) * 256 + b[1]

\* ReadBytesExt::read_u32::<BigEndian>.
U32BigEndian(b) == ((b[1] * 256 + b[2]) * 256 + b[3]) * 256 + b[4]

\* The record loop: a record is pushed, UnexpectedEof breaks, any other
\* error is logged and the loop goes on from where the failed read stopped.
RECURSIVE RecordLoop(_, _, _)
RecordStep(s, attributes, r) ==
    IF r.ok THEN RecordLoop(s, r.pos, Append(attributes, r.rec))
    ELSE IF r.kind = "UnexpectedEof" THEN attributes
    ELSE RecordLoop(s, r.pos, attributes)

RecordLoop(s, pos, attributes) ==
    RecordStep(s, attributes, FileAttributesReadFrom(s, pos))

\* The magic check once the four bytes are read.
CheckMagic(s, magic) ==
    IF ~magic.ok
    THEN [status |-> "UnexpectedEof", attributes |-> <<>>]
    ELSE IF U32BigEndian(magic.bytes) # BPC_ATTRIB_TYPE_XATTR
         THEN [status |-> "InvalidMagic", attributes |-> <<>>]
         ELSE [status |-> "Ok", attributes |-> RecordLoop(s, 4, <<>>)]

AttributeFileReadFrom(s) == CheckMagic(s, ReadExact(s, 0, 4))

(***************************************************************************)
(* Attribute streams for the decoder: the on-disk encoding of records      *)
(* (name_len, name, xattr_count, type_code, mtime, mode, uid, gid, size,   *)
(* inode, compress, nlinks, digest_len, digest, xattrs), and damaged tails *)
(***************************************************************************)
MaxRecords == 2

\* The varint encoding: 7-bit groups, least significant first, the top bit
\* set on every byte but the last.
RECURSIVE EncVarint(_)
EncVarint(n) ==
    IF n < 128 THEN <<n>> ELSE <<128 + (n % 128)>> \o EncVarint(n \div 128)

\* The type codes BackupPC writes.
FileTypeCode(t) ==
    CASE t = "File" -> 0
      [] t = "Hardlink" -> 1
      [] t = "Symlink" -> 2
      [] t = "Chardev" -> 3
      [] t = "Blockdev" -> 4
      [] t = "Dir" -> 5
      [] t = "Fifo" -> 6
      [] t = "Socket" -> 8
      [] t = "Unknown" -> 9
      [] t = "Deleted" -> 10

EncBytes(b) == EncVarint(Len(b)) \o b

EncXattrs(xs) == Flatten([i \in 1..Len(xs) |-> EncBytes(xs[i].key) \o EncBytes(xs[i].value)])

\* A record with the type code and the mode given as raw numbers.
EncodeRaw(r, code, mode) ==
    EncBytes(r.name) \o EncVarint(Len(r.xattrs)) \o EncVarint(code)
    \o EncVarint(r.mtime) \o EncVarint(mode) \o EncVarint(r.uid)
    \o EncVarint(r.gid) \o EncVarint(r.size) \o EncVarint(r.inode)
    \o EncVarint(r.compress) \o EncVarint(r.nlinks)
    \o EncBytes(r.bpc_digest.digest) \o EncXattrs(r.xattrs)

EncodeRecord(r) == EncodeRaw(r, FileTypeCode(r.type_), r.mode)

EncodeAll(recs) == Flatten([i \in 1..Len(recs) |-> EncodeRecord(recs[i])])

MakeRecord(name, type_, k, digest, xattrs) ==
    [name |-> name, type_ |-> type_, compress |-> k + 6, mode |-> k + 1,
     uid |-> k + 2, gid |-> k + 3, nlinks |-> k + 7, mtime |-> k,
     size |-> k + 4, inode |-> k + 5,
     bpc_digest |-> [len |-> Len(digest), digest |-> digest],
     xattr_num_entries |-> Len(xattrs), xattrs |-> xattrs]

\* {name="f", type=5, mtime=1, mode=0o755, everything else 0}
ScenarioRecord ==
    [NoRecord EXCEPT !.name = <<102>>, !.type_ = "Dir", !.mtime = 1, !.mode = 493]

SampleRecords ==
    { ScenarioRecord,
      MakeRecord(<<97, 98>>, "File", 125, <<212, 29, 140>>,
                 << [key |-> <<107>>, value |-> <<118, 49>>] >>),
      MakeRecord(<<>>, "Deleted", 0, <<>>, <<>>),
      MakeRecord(<<102>>, "Symlink", 16380, <<1, 2>>,
                 << [key |-> <<107>>, value |-> <<>>],
                    [key |-> <<108>>, value |-> <<118>>] >>),
      MakeRecord(<<120>>, "Unknown", 3, <<>>, <<>>) }

MagicBytes == <<23, 86, 83, 83>>

\* Headers that are not the magic.
BadHeaders ==
    { <<83, 83, 86, 23>>, <<23, 86, 83, 82>>, <<22, 86, 83, 83>>,
      <<0, 23, 86, 83>>, <<23, 86, 83>> }

Prefixes(b) == {SubSeq(b, 1, n) : n \in 1..(Len(b) - 1)}

\* A damaged continuation of the stream, by kind of damage:
\*   eof      a record cut short (end of input inside the record);
\*   type     a record with an invalid type code, then a well-formed one;
\*   varint   a name length of ten continuation groups, then a record;
\*   width    a record whose mode does not fit 16 bits.
DamagedTails ==
    {[kind |-> "eof", bytes |-> p] :
        p \in UNION {Prefixes(EncodeRecord(r)) :
                        r \in {ScenarioRecord,
                               MakeRecord(<<97, 98>>, "File", 125, <<212, 29, 140>>,
                                   << [key |-> <<107>>, value |-> <<118, 49>>] >>)}}}
    \cup {[kind |-> "type",
           bytes |-> EncodeRaw(ScenarioRecord, c, 493) \o EncodeRecord(ScenarioRecord)] :
             c \in {11, 200}}
    \cup {[kind |-> "varint",
           bytes |-> [i \in 1..9 |-> 255] \o <<2>> \o EncodeRecord(ScenarioRecord)]}
    \cup {[kind |-> "width",
           bytes |-> EncodeRaw(ScenarioRecord, 5, 65536)]}

NoDamage == [kind |-> "none", bytes |-> <<>>]

AttrInputs ==
    {[header |-> MagicBytes, recs |-> rs, tail |-> t] :
        rs \in SeqsUpTo(SampleRecords, MaxRecords),
        t \in DamagedTails \cup {NoDamage}}
    \cup {[header |-> h, recs |-> rs, tail |-> NoDamage] :
        h \in BadHeaders, rs \in SeqsUpTo(SampleRecords, MaxRecords)}

AttrStream(in) == in.header \o EncodeAll(in.recs) \o in.tail.bytes

(***************************************************************************)
(* compress.rs : the inflater behind flate2::bufread::ZlibDecoder          *)
(*                                                                         *)
(* A frame is its header byte (0x78 once rewritten), one byte per payload  *)
(* byte, and an end marker.  The inflater is in state "header", "body",    *)
(* "done" or "error".                                                      *)
(***************************************************************************)
ZlibHeader == 120      \* 0x78
EndMarker == 0

\* One Decompress::run over `input` with room for `room` more bytes; `i`
\* bytes of the input are consumed so far.  `eager` says whether the
\* inflater takes the end marker in while its output is already full.
RECURSIVE Inflate(_, _, _, _, _, _)
Inflate(input, i, st, out, room, eager) ==
    IF st = "done" \/ st = "error" \/ i >= Len(input)
    THEN [st |-> st, consumed |-> i, out |-> out]
    ELSE LET b == input[i + 1]
         IN IF st = "header"
            THEN IF b = ZlibHeader
                 THEN Inflate(input, i + 1, "body", out, room, eager)
                 ELSE [st |-> "error", consumed |-> i, out |-> out]
            ELSE IF b = EndMarker
                 THEN IF Len(out) < room \/ eager
                      THEN [st |-> "done", consumed |-> i + 1, out |-> out]
                      ELSE [st |-> st, consumed |-> i, out |-> out]
                 ELSE IF Len(out) < room
                      THEN Inflate(input, i + 1, st, Append(out, b), room, eager)
                      ELSE [st |-> st, consumed |-> i, out |-> out]

(***************************************************************************)
(* compress.rs : InterpretAdapter over the BufReader of the pool file      *)
(*                                                                         *)
(* a.pos    bytes of the file consumed from the BufReader                  *)
(* a.bufEnd end of the file bytes the BufReader holds in its buffer        *)
(* a.first  the first-byte flag, a.temp the Option<Vec<u8>> of fill_buf    *)
(***************************************************************************)
NoTemp == [some |-> FALSE, buf |-> <<>>]

\* BufReader::fill_buf: an empty buffer is refilled with up to cap bytes.
InnerFillBuf(file, cap, a) ==
    LET end == IF a.pos = a.bufEnd THEN Min(a.pos + cap, Len(file)) ELSE a.bufEnd
    IN [a |-> [a EXCEPT !.bufEnd = end], buf |-> SubSeq(file, a.pos + 1, end)]

\* A faulty rewrite that maps the header byte but passes 0xb3 on; the end
\* of stream on 0xb3 (C5) must tell it from RewriteFirst.
RewriteNoEndByte(rewrite, buf) ==
    IF rewrite /\ (buf[1] = 214 \/ buf[1] = 215)
    THEN <<ZlibHeader>> \o Tail(buf)
    ELSE buf

\* The first byte of a frame: 0xd6 and 0xd7 become 0x78, 0xb3 empties the
\* buffer (end of file); `rewrite` is self.first && !buf.is_empty().
RewriteFirst(rewrite, buf) ==
    IF ~rewrite THEN buf
    ELSE IF buf[1] = 214 \/ buf[1] = 215 THEN <<ZlibHeader>> \o Tail(buf)
    ELSE IF buf[1] = 179 THEN <<>>
    ELSE buf

\* self.first = false when the rewrite ran; self.temp = Some(buf).
StoreTemp(a, rewrite, buf) ==
    [a |-> [a EXCEPT !.first = IF rewrite THEN FALSE ELSE @,
                     !.temp = [some |-> TRUE, buf |-> buf]],
     buf |-> buf]

\* fill_buf with temp empty, once the inner buffer `in` is there.
FillFromInner(first, in) ==
    StoreTemp(in.a, first /\ in.buf # <<>>,
              RewriteFirst(first /\ in.buf # <<>>, in.buf))

\* A faulty fill_buf that treats the first byte of every chunk as the
\* first byte of a frame; the bytes handed to the inflater (C26) must tell
\* it from AdapterFillBuf.
FillEveryChunk(file, cap, a) ==
    IF a.temp.some THEN [a |-> a, buf |-> a.temp.buf]
    ELSE FillFromInner(TRUE, InnerFillBuf(file, cap, a))

\* InterpretAdapter::fill_buf
AdapterFillBuf(file, cap, a) ==
    IF a.temp.some THEN [a |-> a, buf |-> a.temp.buf]
    ELSE FillFromInner(a.first, InnerFillBuf(file, cap, a))

\* InterpretAdapter::consume
AdapterConsume(a, amt) ==
    IF amt > 0
    THEN [a EXCEPT !.temp = NoTemp, !.pos = Min(a.pos + amt, a.bufEnd)]
    ELSE a

\* A faulty reset that does not arm the rewrite of the next first byte; the
\* reading of a second frame (C4) must tell it from AdapterReset.
ResetKeepsFirst(a) == [a EXCEPT !.temp = NoTemp]

\* InterpretAdapter::reset
AdapterReset(a) == [a EXCEPT !.first = TRUE, !.temp = NoTemp]

\* InterpretAdapter::new
AdapterNew == [pos |-> 0, bufEnd |-> 0, first |-> TRUE, temp |-> NoTemp]

(***************************************************************************)
(* compress.rs : BackupPCReader                                            *)
(*                                                                         *)
(* r.a is the adapter, r.dec the Option<ZlibDecoder>: some and its state.  *)
(***************************************************************************)
NoDecoder == [some |-> FALSE, st |-> "header"]
NewDecoder == [some |-> TRUE, st |-> "header"]

\* ZlibDecoder::read (flate2 zio::read): fill_buf, run, consume; a run that
\* produced nothing on non-empty input is repeated.
RECURSIVE ZlibRead(_, _, _, _, _)
ZlibAfter(file, cap, eager, r2, room, eof, run) ==
    IF run.st = "error" THEN [r |-> r2, err |-> TRUE, bytes |-> <<>>]
    ELSE IF run.st # "done" /\ run.out = <<>> /\ ~eof /\ room > 0
         THEN ZlibRead(file, cap, eager, r2, room)
         ELSE [r |-> r2, err |-> FALSE, bytes |-> run.out]

ZlibRun(file, cap, eager, r, room, f, run) ==
    ZlibAfter(file, cap, eager,
              [a |-> AdapterConsume(f.a, run.consumed),
               dec |-> [r.dec EXCEPT !.st = run.st]],
              room, f.buf = <<>>, run)

ZlibFilled(file, cap, eager, r, room, f) ==
    ZlibRun(file, cap, eager, r, room, f,
            Inflate(f.buf, 0, r.dec.st, <<>>, room, eager))

ZlibRead(file, cap, eager, r, room) ==
    ZlibFilled(file, cap, eager, r, room, AdapterFillBuf(file, cap, r.a))

\* BackupPCReader::read_some_bytes: SomeBytesRead goes on once the decoder
\* has read, NextFrame once the adapter has been asked for what is left.
RECURSIVE ReadSomeBytes(_, _, _, _, _)
NextFrame(file, cap, eager, room, f) ==
    IF f.buf = <<>>
    THEN [r |-> [a |-> f.a, dec |-> NoDecoder], err |-> FALSE, bytes |-> <<>>]
    ELSE ReadSomeBytes(file, cap, eager,
                       [a |-> AdapterReset(f.a), dec |-> NewDecoder], room)

SomeBytesRead(file, cap, eager, room, z) ==
    IF z.err \/ z.bytes # <<>> THEN z
    ELSE NextFrame(file, cap, eager, room, AdapterFillBuf(file, cap, z.r.a))

ReadSomeBytes(file, cap, eager, r, room) ==
    IF ~r.dec.some THEN [r |-> r, err |-> FALSE, bytes |-> <<>>]
    ELSE SomeBytesRead(file, cap, eager, room, ZlibRead(file, cap, eager, r, room))

\* BackupPCReader::read into a buffer of n bytes, `got` filled so far.
RECURSIVE ReaderReadLoop(_, _, _, _, _, _)
ReaderReadStep(file, cap, eager, n, got, sb) ==
    IF sb.err THEN [r |-> sb.r, err |-> TRUE, bytes |-> <<>>]
    ELSE IF sb.bytes = <<>> THEN [r |-> sb.r, err |-> FALSE, bytes |-> got]
    ELSE ReaderReadLoop(file, cap, eager, sb.r, n, got \o sb.bytes)

ReaderReadLoop(file, cap, eager, r, n, got) ==
    IF Len(got) >= n THEN [r |-> r, err |-> FALSE, bytes |-> got]
    ELSE ReaderReadStep(file, cap, eager, n, got,
                        ReadSomeBytes(file, cap, eager, r, n - Len(got)))

\* BackupPCReader::new
ReaderNew == [a |-> AdapterNew, dec |-> NewDecoder]

(***************************************************************************)
(* Pool files for the decompressor                                         *)
(***************************************************************************)
MaxFrames == 2
MaxBuf == 3
MaxBufCap == 2
DefaultBufSize == 8192

Payloads == {<<>>, <<214>>, <<7, 215, 179>>}

\* What may follow the frames: nothing, or the 0xb3 end byte and then
\* anything.
PoolTails == {<<>>, <<179>>, <<179, 120, 7, 0>>}

CompressFrame(fr) == <<fr.header>> \o fr.payload \o <<EndMarker>>

PoolFile(p) ==
    Flatten([i \in 1..Len(p.frames) |-> CompressFrame(p.frames[i])]) \o p.tail

PoolPayload(p) == Flatten([i \in 1..Len(p.frames) |-> p.frames[i].payload])

Pools ==
    {[frames |-> fs, tail |-> tl, cap |-> c, eager |-> e] :
        fs \in SeqsUpTo([header : {214, 215}, payload : Payloads], MaxFrames),
        tl \in PoolTails,
        c \in (1..MaxBufCap) \cup {DefaultBufSize},
        e \in BOOLEAN}

(***************************************************************************)
(* view.rs : strings, sorting and the LRU cache                            *)
(*                                                                         *)
(* A string is the sequence of its bytes; a path is a sequence of strings. *)
(***************************************************************************)
Slash == 47

\* Lexicographic order on strings, as String::cmp.
RECURSIVE StrLess(_, _)
StrLess(a, b) ==
    IF b = <<>> THEN FALSE
    ELSE IF a = <<>> THEN TRUE
    ELSE IF a[1] # b[1] THEN a[1] < b[1]
    ELSE StrLess(Tail(a), Tail(b))

\* slice::sort_by / sort_by_key, a stable sort: an element goes after the
\* smaller ones and after the equal ones that came before it.  less[i, j]
\* tells whether s[i] compares below s[j].
StableSort(s, less) ==
    LET Rank(i) == 1 + Cardinality({j \in 1..Len(s) :
                        less[j, i] \/ (~less[i, j] /\ j < i)})
    IN [k \in 1..Len(s) |-> s[CHOOSE i \in 1..Len(s) : Rank(i) = k]]

NameLess(x, y) == StrLess(x.name, y.name)
LenLess(x, y) == Len(x) < Len(y)

\* result.sort_by(|a, b| a.name.cmp(&b.name))
SortByName(files) ==
    StableSort(files, [i \in 1..Len(files), j \in 1..Len(files) |->
                          NameLess(files[i], files[j])])

\* shares.sort_by_key(|a| a.len())
SortByLen(shares) ==
    StableSort(shares, [i \in 1..Len(shares), j \in 1..Len(shares) |->
                           LenLess(shares[i], shares[j])])

\* [T]::join("/")
RECURSIVE JoinSlash(_)
JoinSlash(parts) ==
    IF parts = <<>> THEN <<>>
    ELSE IF Len(parts) = 1 THEN parts[1]
    ELSE parts[1] \o <<Slash>> \o JoinSlash(Tail(parts))

\* str::split('/'): the pieces between the separators, empty ones included.
RECURSIVE SplitSlash(_, _)
SplitSlash(s, cur) ==
    IF s = <<>> THEN <<cur>>
    ELSE IF s[1] = Slash THEN <<cur>> \o SplitSlash(Tail(s), <<>>)
    ELSE SplitSlash(Tail(s), Append(cur, s[1]))

\* sanitize_path
sanitize_path(path) ==
    LET NonEmpty(c) == c # <<>>
    IN SelectSeq(SplitSlash(path, <<>>), NonEmpty)

\* slice::starts_with
StartsWith(s, prefix) ==
    Len(prefix) <= Len(s) /\ SubSeq(s, 1, Len(prefix)) = prefix

\* All orders in which the elements of a finite set can be enumerated.
Orders(S) ==
    {f \in [1..Cardinality(S) -> S] : \A i, j \in 1..Cardinality(S) : f[i] = f[j] => i = j}

\* LruCache: a sequence of entries, the most recently used last.
CACHE_SIZE == 1000

CacheHas(c, key) == \E i \in 1..Len(c) : c[i].key = key

CacheIndex(c, key) == CHOOSE i \in 1..Len(c) : c[i].key = key

WithoutIndex(c, i) == SubSeq(c, 1, i - 1) \o SubSeq(c, i + 1, Len(c))

\* LruCache::get: the value, and the entry made the most recently used.
CacheGetAt(c, i) == [val |-> c[i].val, cache |-> Append(WithoutIndex(c, i), c[i])]

CacheGet(c, key) == CacheGetAt(c, CacheIndex(c, key))

\* LruCache::put: a known key is updated and promoted; a new key evicts the
\* least recently used entry of a full cache.
CachePut(c, cap, key, val) ==
    IF CacheHas(c, key)
    THEN Append(WithoutIndex(c, CacheIndex(c, key)), [key |-> key, val |-> val])
    ELSE Append(IF Len(c) >= cap THEN Tail(c) ELSE c, [key |-> key, val |-> val])

(***************************************************************************)
(* util.rs / view.rs : hexadecimal rendering                               *)
(***************************************************************************)
\* One digit of format!("{:02x}").
HexDigit(d) == IF d < 10 THEN 48 + d ELSE 87 + d

Hex2(b) == <<HexDigit(b \div 16), HexDigit(b % 16)>>

vec_to_hex_string(vec) == Flatten([i \in 1..Len(vec) |-> Hex2(vec[i])])

\* The first k bytes of u64::to_le_bytes.
RECURSIVE LeBytes(_, _)
LeBytes(n, k) == IF k = 0 THEN <<>> ELSE <<n % 256>> \o LeBytes(n \div 256, k - 1)

\* get_inode: the little-endian bytes of the inode, cut after the last
\* non-zero byte when there is one (nonZero holds the places of the
\* non-zero bytes), in hexadecimal.
InodeCut(inode_vec, nonZero) ==
    vec_to_hex_string(
        IF nonZero = {} THEN inode_vec
        ELSE SubSeq(inode_vec, 1, CHOOSE i \in nonZero : \A j \in nonZero : j <= i))

InodeTruncate(inode_vec) == InodeCut(inode_vec, {i \in 1..8 : inode_vec[i] # 0})

InodeStr(inode) == InodeTruncate(LeBytes(inode, 8))

\* "inode/"  and  "attrib"
StrInodeDir == <<105, 110, 111, 100, 101, 47>>
StrAttrib == <<97, 116, 116, 114, 105, 98>>
Underscore == 95

\* list_file_from_inode: attrib_path and attrib_file of an inode.
InodeAttribPath(inode) == StrInodeDir \o Hex2((inode \div 131072) % 128)
InodeAttribFile(inode) == StrAttrib \o Hex2((inode \div 1024) % 128) \o <<Underscore>>

(***************************************************************************)
(* hosts.rs : the fill chain (HostsTrait::list_backups_to_fill)            *)
(*                                                                         *)
(* A manifest is the sequence of the host's backups [num, no_fill], in     *)
(* the order of the file, by ascending num.                                *)
(***************************************************************************)
\* A faulty chain that always starts at the oldest backup; C2 must tell it
\* from list_backups_to_fill.
backups_up_to(manifest, n) ==
    LET IsIn(b) == b.num <= n
    IN SelectSeq(manifest, IsIn)

\* The backups of the manifest from place `start` on that are not after n.
ChainFrom(manifest, n, start) ==
    LET IsIn(b) == b.num <= n
    IN SelectSeq(SubSeq(manifest, start, Len(manifest)), IsIn)

\* The place of the last of the filled backups, the oldest backup when
\* there is none.
NearestFilled(filled) ==
    IF filled = {} THEN 1 ELSE CHOOSE i \in filled : \A j \in filled : j <= i

\* Walk backward from backup n to the nearest filled backup; the chain
\* holds the backups from that one to n, oldest first.  With no filled
\* backup at or before n the walk ends at the oldest backup.
list_backups_to_fill(manifest, n) ==
    ChainFrom(manifest, n,
              NearestFilled({i \in 1..Len(manifest) :
                                manifest[i].num <= n /\ manifest[i].no_fill = 0}))

(***************************************************************************)
(* attribute_file.rs : what the Search capability returns                  *)
(*                                                                         *)
(* disk.dirs[b]   the listing of the directory in backup b: a sequence of  *)
(*                records, or Err                                          *)
(* disk.tables    the state of the per-inode tables                        *)
(* disk.shares    the share records of a backup's root                     *)
(* disk.echo      the listing of a directory is one record naming the      *)
(*                share and the directory asked for                        *)
(***************************************************************************)
\* A Result<Vec<FileAttributes>>.
Err == [ok |-> FALSE, files |-> <<>>]
Ok(files) == [ok |-> TRUE, files |-> files]

NoneStr == [some |-> FALSE, v |-> <<>>]
SomeStr(s) == [some |-> TRUE, v |-> s]

HostH == <<104>>

\* The backups file of a host; only HostH has one.
ManifestOf(dsk, hostname) == IF hostname = HostH THEN dsk.manifest ELSE <<>>

ModelInodes == {1, 2, 1024}

\* The digest the per-inode table of (backup, inode) holds.
TableDigest(b, inode) == <<200 + b, inode % 256, inode \div 256>>

InodeEntry(b, inode) ==
    [NoRecord EXCEPT !.name = InodeStr(inode), !.type_ = "File",
                     !.inode = inode, !.nlinks = 2,
                     !.bpc_digest = [len |-> 3, digest |-> TableDigest(b, inode)]]

\* The record a directory listing holds when disk.echo is set: its name is
\* the share, a '|' and the directory.
EchoRecord(share, filename) ==
    [NoRecord EXCEPT !.name = share.v \o <<124>> \o filename.v, !.type_ = "File"]

\* SearchTrait::list_file_from_dir
SearchListFileFromDir(dsk, hostname, b, share, filename) ==
    IF ~share.some THEN dsk.shares
    ELSE IF dsk.echo THEN Ok(<<EchoRecord(share, filename)>>)
    ELSE dsk.dirs[b]

\* The inodes whose entry lives in the attribute file of this name.
TableInodes(dsk, attrib_path, attrib_file) ==
    {i \in ModelInodes : /\ InodeAttribPath(i) = attrib_path
                         /\ InodeAttribFile(i) = attrib_file
                         /\ (dsk.tables = "partial" => i = 1)}

\* The attribute file holds its entries by descending inode.
Descending(here) ==
    CHOOSE f \in Orders(here) :
        \A i, j \in 1..Cardinality(here) : i < j => f[i] > f[j]

TableEntries(b, order) == Ok([k \in 1..Len(order) |-> InodeEntry(b, order[k])])

\* SearchTrait::list_attributes for a per-inode table: the entries of the
\* inodes of backup b that live in this attribute file.
SearchListAttributes(dsk, hostname, b, attrib_path, attrib_file) ==
    IF dsk.tables = "err" THEN Err
    ELSE TableEntries(b, Descending(TableInodes(dsk, attrib_path, attrib_file)))

(***************************************************************************)
(* view.rs : BackupPC, the merge / fill engine                             *)
(***************************************************************************)
\* return Ok(cached_result.clone()) after self.cache.get(&key)
CacheHit(g) == [ok |-> TRUE, files |-> g.val, cache |-> g.cache]

\* self.cache.put(key, result.clone()); Ok(result)
CacheStore(lru, cap, key, result) ==
    [ok |-> TRUE, files |-> result, cache |-> CachePut(lru, cap, key, result)]

\* list_file_from_inode once list_attributes has answered `found`.
InodeFound(lru, cap, key, found) ==
    IF ~found.ok THEN [ok |-> FALSE, files |-> <<>>, cache |-> lru]
    ELSE CacheStore(lru, cap, key, SortByName(found.files))

\* list_file_from_inode once the cache key is made.
InodeKeyed(lru, cap, dsk, hostname, backup_number, attrib_path, attrib_file, key) ==
    IF CacheHas(lru, key) THEN CacheHit(CacheGet(lru, key))
    ELSE InodeFound(lru, cap, key,
                    SearchListAttributes(dsk, hostname, backup_number,
                                         attrib_path, attrib_file))

\* key = format!("{attrib_path}/{attrib_file}")
InodePaths(lru, cap, dsk, hostname, backup_number, attrib_path, attrib_file) ==
    InodeKeyed(lru, cap, dsk, hostname, backup_number, attrib_path, attrib_file,
               attrib_path \o <<Slash>> \o attrib_file)

\* BackupPC::list_file_from_inode
list_file_from_inode(lru, cap, dsk, hostname, backup_number, inode) ==
    InodePaths(lru, cap, dsk, hostname, backup_number,
               InodeAttribPath(inode), InodeAttribFile(inode))

\* files.iter().find(|i| i.name == inode_str): hits holds the places of
\* the entries of that name.
InodeFind(l, hits) ==
    [ok |-> l.ok, cache |-> l.cache, found |-> l.ok /\ hits # {},
     rec |-> IF l.ok /\ hits # {}
             THEN l.files[CHOOSE i \in hits : \A j \in hits : i <= j]
             ELSE NoRecord]

InodeLookup(l, inode_str) ==
    InodeFind(l, {i \in 1..Len(l.files) : l.files[i].name = inode_str})

\* BackupPC::get_inode
get_inode(lru, cap, dsk, hostname, backup_number, inode) ==
    InodeLookup(list_file_from_inode(lru, cap, dsk, hostname, backup_number, inode),
                InodeStr(inode))

\* A faulty remove that keeps the name; the merge (C1) must tell it from
\* MapRemove.
MapKeep(files, name) == files

\* HashMap::remove and HashMap::insert on the map name -> record, held as
\* the set of its values.
MapRemove(files, name) == {f \in files : f.name # name}
MapInsert(files, file) == MapRemove(files, file.name) \cup {file}

\* The inner loop of list_file_from_dir over the records of one backup:
\* MergeRecord handles the record `file`, MergePatched goes on once
\* get_inode has answered `g`.
RECURSIVE MergeRecords(_, _, _, _, _, _, _)
MergePatched(cap, dsk, hostname, b, todo, files, file, g) ==
    IF ~g.ok THEN [ok |-> FALSE, files |-> {}, cache |-> g.cache]
    ELSE MergeRecords(g.cache, cap, dsk, hostname, b, Tail(todo),
                      MapInsert(files,
                                IF g.found
                                THEN [file EXCEPT !.bpc_digest = g.rec.bpc_digest]
                                ELSE file))

MergeRecord(lru, cap, dsk, hostname, b, todo, files, file) ==
    IF file.type_ = "Deleted"
    THEN MergeRecords(lru, cap, dsk, hostname, b, Tail(todo),
                      MapRemove(files, file.name))
    ELSE IF file.nlinks > 0
    THEN MergePatched(cap, dsk, hostname, b, todo, files, file,
                      get_inode(lru, cap, dsk, hostname, b, file.inode))
    ELSE MergeRecords(lru, cap, dsk, hostname, b, Tail(todo),
                      MapInsert(files, file))

MergeRecords(lru, cap, dsk, hostname, b, todo, files) ==
    IF todo = <<>> THEN [ok |-> TRUE, files |-> files, cache |-> lru]
    ELSE MergeRecord(lru, cap, dsk, hostname, b, todo, files, Head(todo))

\* The outer loop of list_file_from_dir over the fill chain: MergeListed
\* goes on once the directory of backup b is listed (files_from_backup,
\* here `listed`), MergeNextBackup once
\* its records are merged.
RECURSIVE MergeBackups(_, _, _, _, _, _, _, _)
MergeNextBackup(cap, dsk, hostname, share, filename, chain, m) ==
    IF ~m.ok THEN m
    ELSE MergeBackups(m.cache, cap, dsk, hostname, share, filename,
                      Tail(chain), m.files)

MergeListed(lru, cap, dsk, hostname, share, filename, chain, files, b, listed) ==
    IF ~listed.ok THEN [ok |-> FALSE, files |-> {}, cache |-> lru]
    ELSE MergeNextBackup(cap, dsk, hostname, share, filename, chain,
                         MergeRecords(lru, cap, dsk, hostname, b,
                                      listed.files, files))

MergeBackups(lru, cap, dsk, hostname, share, filename, chain, files) ==
    IF chain = <<>> THEN [ok |-> TRUE, files |-> files, cache |-> lru]
    ELSE MergeListed(lru, cap, dsk, hostname, share, filename, chain, files,
                     Head(chain).num,
                     SearchListFileFromDir(dsk, hostname, Head(chain).num,
                                           share, filename))

\* BackupPC::list_file_from_dir
list_file_from_dir(lru, cap, dsk, hostname, backup_number, share, filename) ==
    MergeBackups(lru, cap, dsk, hostname, share, filename,
                 list_backups_to_fill(ManifestOf(dsk, hostname), backup_number), {})

(***************************************************************************)
(* view.rs : shares, direct_list and list                                  *)
(***************************************************************************)
\* FileAttributes::from_host and FileAttributes::from_share
from_host(host) == [NoRecord EXCEPT !.name = host, !.type_ = "Dir"]
from_share(share) == [NoRecord EXCEPT !.name = share, !.type_ = "Dir"]

\* u32::to_string
RECURSIVE ToDecimal(_)
ToDecimal(n) == IF n < 10 THEN <<48 + n>> ELSE ToDecimal(n \div 10) \o <<48 + (n % 10)>>

\* FileAttributes::from_backup
from_backup(backup) ==
    [NoRecord EXCEPT !.name = ToDecimal(backup.num), !.type_ = "Dir",
                     !.mtime = backup.start_time]

\* str::parse::<u32>().unwrap_or(0): decimal digits after an optional '+',
\* anything else is 0.  (The model's numbers stay far below 2^32.)
RECURSIVE DigitsValue(_, _)
DigitsValue(s, acc) ==
    IF s = <<>> THEN acc ELSE DigitsValue(Tail(s), 10 * acc + (Head(s) - 48))

ParseDigits(digits) ==
    IF digits # <<>> /\ \A i \in 1..Len(digits) : digits[i] \in 48..57
    THEN DigitsValue(digits, 0)
    ELSE 0

ParseU32(s) == ParseDigits(IF s # <<>> /\ Head(s) = 43 THEN Tail(s) ELSE s)

\* The order in which a HashMap name -> record gives its values: perm is a
\* sequence of names, a value comes at the place of its name.
ValuesOf(files, names) ==
    [i \in 1..Len(names) |-> CHOOSE f \in files : f.name = names[i]]

Enumerate(files, perm) ==
    LET Held(name) == \E f \in files : f.name = name
    IN ValuesOf(files, SelectSeq(perm, Held))

\* One enumeration of a finite set.
AnyOrderSeq(S) == CHOOSE f \in Orders(S) : TRUE

\* The names of a map's records, in one order (the callers sort by name).
AnyOrder(files) ==
    AnyOrderSeq({f.name : f \in files})

\* A faulty unique that keeps the duplicates; C10 must tell it from unique.
keep_all(iterable) == iterable

\* util::unique: the distinct values, in the order of a HashSet.  Both
\* callers sort the result by name, so one order stands for all.
unique(iterable) ==
    AnyOrderSeq(Range(iterable))

\* The filter_map of list_shares_of over the sorted shares: the last share
\* that is a prefix of the path is selected, a share that continues the
\* path gives its next component.
RECURSIVE FilterShares(_, _, _)
FilterShare(shares, path, acc, share, share_array) ==
    IF StartsWith(path, share_array) \/ path = share_array
    THEN FilterShares(Tail(shares), path,
                      [acc EXCEPT !.share_size = Len(share_array),
                                  !.selected_share = SomeStr(share)])
    ELSE IF StartsWith(share_array, path)
    THEN FilterShares(Tail(shares), path,
                      [acc EXCEPT !.shares = Append(@, share_array[Len(path) + 1])])
    ELSE FilterShares(Tail(shares), path, acc)

FilterShares(shares, path, acc) ==
    IF shares = <<>> THEN acc
    ELSE FilterShare(shares, path, acc, Head(shares), sanitize_path(Head(shares)))

\* shares.iter().map(|share| &share.name)
NamesOf(listed) == [i \in 1..Len(listed) |-> listed[i].name]

\* list_shares_of once the shares are filtered: unique(shares) and the
\* selected share.
SharesFiltered(l, f) ==
    [ok |-> TRUE, shares |-> unique(f.shares),
     selected_share |-> f.selected_share, share_size |-> f.share_size,
     cache |-> l.cache]

\* list_shares_of once the root of the backup is listed.
SharesListed(l, path, perm) ==
    IF ~l.ok
    THEN [ok |-> FALSE, shares |-> <<>>, selected_share |-> NoneStr,
          share_size |-> 0, cache |-> l.cache]
    ELSE SharesFiltered(l,
             FilterShares(SortByLen(NamesOf(Enumerate(l.files, perm))), path,
                 [shares |-> <<>>, selected_share |-> NoneStr, share_size |-> 0]))

\* BackupPC::list_shares_of
list_shares_of(lru, cap, dsk, hostname, backup_number, path, perm) ==
    SharesListed(list_file_from_dir(lru, cap, dsk, hostname, backup_number,
                                    NoneStr, NoneStr),
                 path, perm)

\* HostsTrait::list_hosts and list_backups; a host without a backups file
\* gives the NotFound error, and disk.backups_err tells the error the backups
\* file of HostH gives, if any.
list_hosts(dsk) == <<HostH>>
BackupsFailed(kind) == [ok |-> FALSE, kind |-> kind, files |-> <<>>]
list_backups(dsk, hostname) ==
    IF hostname # HostH THEN BackupsFailed("NotFound")
    ELSE IF dsk.backups_err # "none" THEN BackupsFailed(dsk.backups_err)
    ELSE [ok |-> TRUE, kind |-> "none", files |-> dsk.manifest]

\* direct_list on no component: the hosts.
DirectHosts(lru, hosts) ==
    [ok |-> TRUE, cache |-> lru,
     files |-> [i \in 1..Len(hosts) |-> from_host(hosts[i])]]

\* direct_list on one component: the backups of the host, none when the
\* backups file is not found.
\* A faulty version that takes every error for a missing file.
EveryErrorIsEmpty(lru, backups) ==
    [ok |-> TRUE, cache |-> lru,
     files |-> [i \in 1..Len(backups.files) |-> from_backup(backups.files[i])]]

DirectBackups(lru, backups) ==
    IF backups.ok \/ backups.kind = "NotFound"
    THEN [ok |-> TRUE, cache |-> lru,
          files |-> [i \in 1..Len(backups.files) |-> from_backup(backups.files[i])]]
    ELSE [ok |-> FALSE, cache |-> lru, files |-> <<>>]

\* direct_list once the selected share is listed: the files, then the
\* detected shares, sorted by name.
DirectFiles(l, shares) ==
    IF ~l.ok THEN [ok |-> FALSE, cache |-> l.cache, files |-> <<>>]
    ELSE [ok |-> TRUE, cache |-> l.cache,
          files |-> SortByName(Enumerate(l.files, AnyOrder(l.files)) \o shares)]

\* direct_list once list_shares_of has answered `s`.
DirectShares(cap, dsk, path, backup_number, s, shares) ==
    IF ~s.ok THEN [ok |-> FALSE, cache |-> s.cache, files |-> <<>>]
    ELSE IF ~s.selected_share.some
    THEN [ok |-> TRUE, cache |-> s.cache, files |-> shares]
    ELSE DirectFiles(
             list_file_from_dir(s.cache, cap, dsk, path[1], backup_number,
                 s.selected_share,
                 SomeStr(JoinSlash(SubSeq(path, 3 + s.share_size, Len(path))))),
             shares)

DirectShared(cap, dsk, path, backup_number, s) ==
    DirectShares(cap, dsk, path, backup_number, s,
                 [i \in 1..Len(s.shares) |-> from_share(s.shares[i])])

\* direct_list on two components or more.
DirectBackup(lru, cap, dsk, path, perm, backup_number) ==
    DirectShared(cap, dsk, path, backup_number,
                 list_shares_of(lru, cap, dsk, path[1], backup_number,
                                SubSeq(path, 3, Len(path)), perm))

\* BackupPC::direct_list
direct_list(lru, cap, dsk, path, perm) ==
    IF Len(path) = 0 THEN DirectHosts(lru, list_hosts(dsk))
    ELSE IF Len(path) = 1 THEN DirectBackups(lru, list_backups(dsk, path[1]))
    ELSE DirectBackup(lru, cap, dsk, path, perm, ParseU32(path[2]))

\* list once direct_list has answered `d`.
ListDirect(cap, key, d) ==
    IF ~d.ok THEN [ok |-> FALSE, files |-> <<>>, cache |-> d.cache]
    ELSE CacheStore(d.cache, cap, key, SortByName(d.files))

\* list once the cache key is made.
ListKeyed(lru, cap, dsk, path, perm, key) ==
    IF CacheHas(lru, key) THEN CacheHit(CacheGet(lru, key))
    ELSE ListDirect(cap, key, direct_list(lru, cap, dsk, path, perm))

\* BackupPC::list
list(lru, cap, dsk, path, perm) ==
    LET NonEmpty(c) == c # <<>>
    IN ListKeyed(lru, cap, dsk, path, perm, JoinSlash(SelectSeq(path, NonEmpty)))

(***************************************************************************)
(* pool.rs : the pool locator                                              *)
(*                                                                         *)
(* The pool on disk is a function from the path of every existing file to  *)
(* its bytes.  A path is a string, built as Path::join builds it.          *)
(***************************************************************************)
StrPool == <<112, 111, 111, 108>>
StrCpool == <<99, 112, 111, 111, 108>>

\* Path::join of a relative component.
PathJoin(base, comp) ==
    IF base = <<>> THEN comp
    ELSE IF base[Len(base)] = Slash THEN base \o comp
    ELSE base \o <<Slash>> \o comp

\* Path::exists
PathExists(fs, path) == path \in DOMAIN fs

\* format!("{:x}"): the hex digits of n without leading zeros.
RECURSIVE HexDigits(_)
HexDigits(n) ==
    IF n < 16 THEN <<HexDigit(n)>> ELSE HexDigits(n \div 16) \o <<HexDigit(n % 16)>>

\* format!("{collid:02x}"): at least two hex digits.
HexMin2(n) == IF n < 16 THEN <<48>> \o HexDigits(n) ELSE HexDigits(n)

\* byte & 0xfe
MaskFe(b) == b - (b % 2)

NoCollid == [some |-> FALSE, v |-> 0]
SomeCollid(k) == [some |-> TRUE, v |-> k]

FindErr(kind) == [ok |-> FALSE, kind |-> kind, path |-> <<>>, is_compressed |-> FALSE]
FindOk(path, is_compressed) ==
    [ok |-> TRUE, kind |-> "none", path |-> path, is_compressed |-> is_compressed]

\* The tail of find_file_in_backuppc, with the cpool looked at first.
CpoolFirst(fs, pool_path, cpool_path) ==
    IF PathExists(fs, cpool_path) THEN FindOk(cpool_path, TRUE)
    ELSE IF PathExists(fs, pool_path) THEN FindOk(pool_path, FALSE)
    ELSE FindErr("does not exist")

\* The tail of find_file_in_backuppc: the pool, then the cpool.
PoolFirst(fs, pool_path, cpool_path) ==
    IF PathExists(fs, pool_path) THEN FindOk(pool_path, FALSE)
    ELSE IF PathExists(fs, cpool_path) THEN FindOk(cpool_path, TRUE)
    ELSE FindErr("does not exist")

\* The path of the file under the directory "pool" or "cpool".
PoolPathOf(topdir, kind, firsts, seconds, name) ==
    PathJoin(PathJoin(PathJoin(PathJoin(topdir, kind), firsts), seconds), name)

CollidPrefix(collid) == IF collid.some THEN HexMin2(collid.v) ELSE <<>>

FindNamed(fs, topdir, firsts, seconds, name) ==
    PoolFirst(fs, PoolPathOf(topdir, StrPool, firsts, seconds, name),
                  PoolPathOf(topdir, StrCpool, firsts, seconds, name))

find_file_in_backuppc(fs, topdir, file_hash, collid) ==
    IF Len(file_hash) < 2 THEN FindErr("must be at least 2 bytes long")
    ELSE FindNamed(fs, topdir, Hex2(MaskFe(file_hash[1])), Hex2(MaskFe(file_hash[2])),
                   CollidPrefix(collid) \o vec_to_hex_string(file_hash))
(***************************************************************************)
(* view.rs : BackupPC::read_file                                           *)
(***************************************************************************)
EMPTY_MD5_DIGEST ==
    <<212, 29, 140, 217, 143, 0, 178, 4, 233, 128, 9, 152, 236, 248, 66, 126>>

\* The Box<dyn Read> read_file returns: io::empty(), a BufReader over the
\* file, or a BackupPCReader over the file.
StreamEmpty == [kind |-> "empty", path |-> <<>>]
StreamBuf(path) == [kind |-> "BufReader", path |-> path]
StreamBpc(path) == [kind |-> "BackupPCReader", path |-> path]

ReadFileErr(kind, lru) == [ok |-> FALSE, kind |-> kind, stream |-> StreamEmpty, cache |-> lru]
ReadFileOk(stream, lru) == [ok |-> TRUE, kind |-> "none", stream |-> stream, cache |-> lru]

\* File::open(path)? and the reader put around the file.
ReadFileOpen(fs, lru, path, is_compressed) ==
    IF ~PathExists(fs, path) THEN ReadFileErr("NotFound", lru)
    ELSE IF is_compressed THEN ReadFileOk(StreamBpc(path), lru)
    ELSE ReadFileOk(StreamBuf(path), lru)

\* match find_file_in_backuppc(..)
ReadFileLocated(fs, lru, found) ==
    IF found.ok THEN ReadFileOpen(fs, lru, found.path, found.is_compressed)
    ELSE ReadFileErr("NotFound", lru)

\* The digest test with the record's digest taken whatever its length field.
DigestNotEmptyMd5(file) == file.bpc_digest.digest # EMPTY_MD5_DIGEST

\* file.bpc_digest.len > 2 && file.bpc_digest.digest.ne(&EMPTY_MD5_DIGEST)
DigestInPool(file) == file.bpc_digest.len > 2 /\ file.bpc_digest.digest # EMPTY_MD5_DIGEST

ReadFileRecord(fs, topdir, lru, file) ==
    IF DigestInPool(file)
    THEN ReadFileLocated(fs, lru,
                         find_file_in_backuppc(fs, topdir, file.bpc_digest.digest, NoCollid))
    ELSE ReadFileOk(StreamEmpty, lru)

\* attributes.into_iter().find(|f| f.name.eq(filename))
FindByName(files, filename) == {i \in 1..Len(files) : files[i].name = filename}

ReadFileFind(fs, topdir, lru, files, found) ==
    IF found = {} THEN ReadFileErr("NotFound", lru)
    ELSE ReadFileRecord(fs, topdir, lru, files[CHOOSE i \in found : \A j \in found : i <= j])

\* let attributes = self.list(&path[..path.len() - 1])?
ReadFileListed(fs, topdir, filename, listed) ==
    IF ~listed.ok THEN ReadFileErr("list", listed.cache)
    ELSE ReadFileFind(fs, topdir, listed.cache, listed.files,
                      FindByName(listed.files, filename))

read_file(lru, cap, dsk, fs, topdir, path, perm) ==
    IF path = <<>> THEN ReadFileErr("Other", lru)
    ELSE ReadFileListed(fs, topdir, path[Len(path)],
                        list(lru, cap, dsk, SubSeq(path, 1, Len(path) - 1), perm))
(***************************************************************************)
(* hosts.rs : Hosts::list_backups, the parser of the backups file          *)
(***************************************************************************)
Tab == 9
Newline == 10
CarriageReturn == 13

\* The positions of the separator in s.
SepPositions(s, sep) == {i \in 1..Len(s) : s[i] = sep}

\* The position of the k-th separator of s; 0 before the first, Len(s) + 1
\* after the last.
SepAt(s, sep, k) ==
    IF k = 0 THEN 0
    ELSE IF k > Cardinality(SepPositions(s, sep)) THEN Len(s) + 1
    ELSE CHOOSE i \in SepPositions(s, sep) :
             Cardinality({j \in SepPositions(s, sep) : j < i}) = k - 1

\* str::split(sep): the pieces between the separators, empty ones included.
SplitByte(s, sep) ==
    [k \in 1..(Cardinality(SepPositions(s, sep)) + 1) |->
        SubSeq(s, SepAt(s, sep, k - 1) + 1, SepAt(s, sep, k) - 1)]

\* A line without its final "\r".
StripCr(line) ==
    IF line # <<>> /\ line[Len(line)] = CarriageReturn
    THEN SubSeq(line, 1, Len(line) - 1) ELSE line

\* The pieces of the text without the piece after the last "\n" when it is empty.
DropLastEmpty(pieces) ==
    IF pieces[Len(pieces)] = <<>> THEN SubSeq(pieces, 1, Len(pieces) - 1) ELSE pieces

\* BufRead::lines
Lines(text) ==
    [i \in 1..Len(DropLastEmpty(SplitByte(text, Newline))) |->
        StripCr(DropLastEmpty(SplitByte(text, Newline))[i])]

\* str::parse::<i32>().unwrap_or(-1): decimal digits after an optional sign.
ParseI32OrMinus1(s) ==
    IF s = <<>> THEN -1
    ELSE IF Head(s) = 45
         THEN (IF Tail(s) # <<>> /\ \A i \in 1..Len(Tail(s)) : Tail(s)[i] \in 48..57
               THEN 0 - DigitsValue(Tail(s), 0) ELSE -1)
    ELSE IF Head(s) = 43
         THEN (IF Tail(s) # <<>> /\ \A i \in 1..Len(Tail(s)) : Tail(s)[i] \in 48..57
               THEN DigitsValue(Tail(s), 0) ELSE -1)
    ELSE IF \A i \in 1..Len(s) : s[i] \in 48..57 THEN DigitsValue(s, 0)
    ELSE -1

\* The number of fields a line must have for fields[24] to exist.
BackupFields == 25

\* BackupInformation { num: fields[0].parse().unwrap_or_default(), .. }
BackupInformation(fields) ==
    [num |-> ParseU32(fields[1]), backup_type |-> fields[2],
     start_time |-> ParseU32(fields[3]), end_time |-> ParseU32(fields[4]),
     n_files |-> ParseU32(fields[5]), size |-> ParseU32(fields[6]),
     n_files_exist |-> ParseU32(fields[7]), size_exist |-> ParseU32(fields[8]),
     n_files_new |-> ParseU32(fields[9]), size_new |-> ParseU32(fields[10]),
     xfer_errs |-> ParseU32(fields[11]), xfer_bad_file |-> ParseU32(fields[12]),
     xfer_bad_share |-> ParseU32(fields[13]), tar_errs |-> ParseU32(fields[14]),
     compress |-> ParseU32(fields[15]), size_exist_comp |-> ParseU32(fields[16]),
     size_new_comp |-> ParseU32(fields[17]), no_fill |-> ParseU32(fields[18]),
     fill_from_num |-> ParseI32OrMinus1(fields[19]), mangle |-> ParseU32(fields[20]),
     xfer_method |-> fields[21], level |-> ParseU32(fields[22]),
     charset |-> fields[23], version |-> fields[24],
     inode_last |-> ParseU32(fields[25])]

BackupsOk(backups) == [status |-> "Ok", backups |-> backups]
BackupsErr(kind) == [status |-> kind, backups |-> <<>>]

\* The loop body once the line is split: fields[i] panics (index out of
\* bounds) when the line has fewer than 25 fields.
PushBackup(lines, i, backups, fields) ==
    IF Len(fields) < BackupFields THEN <<"panic", backups>>
    ELSE <<"next", Append(backups, BackupInformation(fields))>>

\* for line in reader.lines() { .. backups.push(backup) }
RECURSIVE BackupsLoop(_, _, _)
BackupsStep(lines, i, backups, step) ==
    IF step[1] = "panic" THEN BackupsErr("panic")
    ELSE BackupsLoop(lines, i + 1, step[2])

BackupsLoop(lines, i, backups) ==
    IF i > Len(lines) THEN BackupsOk(backups)
    ELSE BackupsStep(lines, i, backups,
                     PushBackup(lines, i, backups, SplitByte(lines[i], Tab)))

\* No backups file.
NoFile == [exists |-> FALSE, text |-> <<>>]

\* Hosts::list_backups on the backups file of the host: file.exists tells
\* whether File::open finds it, file.text is what it holds.
HostsListBackups(file) ==
    IF ~file.exists THEN BackupsErr("NotFound")
    ELSE BackupsLoop(Lines(file.text), 1, <<>>)
(***************************************************************************)
(* attribute_file.rs : Search, the attribute locator                       *)
(*                                                                         *)
(* The directories under topdir/pc are a function from the path of every   *)
(* existing directory to the names read_dir gives, in the order it gives   *)
(* them.                                                                   *)
(***************************************************************************)
Percent == 37
LetterF == 102
StrPc == <<Slash, 112, 99, Slash>>

\* A faulty escape that leaves '%' as it is; the round trip through
\* unmangle_filename (C23) must tell it from MangleChar.
MangleNoPercent(c) == IF c \in {Slash, Newline, CarriageReturn} THEN <<Percent>> \o Hex2(c) ELSE <<c>>

\* One character of mangle_filename.
MangleChar(c) == IF c \in {Percent, Slash, Newline, CarriageReturn} THEN <<Percent>> \o Hex2(c) ELSE <<c>>

mangle_filename(path_um) ==
    IF path_um = <<>> THEN <<>>
    ELSE <<LetterF>> \o Flatten([i \in 1..Len(path_um) |-> MangleChar(path_um[i])])

mangle(path_um) ==
    IF path_um = <<>> THEN <<>>
    ELSE JoinSlash([i \in 1..Len(SplitSlash(path_um, <<>>)) |->
                       mangle_filename(SplitSlash(path_um, <<>>)[i])])

\* u8::from_str_radix(chunk, 16) for one digit; -1 when it is no hex digit.
HexValue(c) ==
    IF c \in 48..57 THEN c - 48
    ELSE IF c \in 97..102 THEN c - 87
    ELSE IF c \in 65..70 THEN c - 55
    ELSE -1

\* The value of the chunk of hex_string that starts at i (1 or 2 digits).
ChunkValue(hex_string, i) ==
    IF i = Len(hex_string) THEN HexValue(hex_string[i])
    ELSE 16 * HexValue(hex_string[i]) + HexValue(hex_string[i + 1])

\* hex_string_to_vec: ok is FALSE when an unwrap panics.
hex_string_to_vec(hex_string) ==
    [ok |-> \A i \in 1..Len(hex_string) : HexValue(hex_string[i]) >= 0,
     bytes |-> [k \in 1..((Len(hex_string) + 1) \div 2) |-> ChunkValue(hex_string, 2 * k - 1)]]

\* The directory a path names: a final '/' changes nothing.
DirKey(path) ==
    IF path # <<>> /\ path[Len(path)] = Slash THEN SubSeq(path, 1, Len(path) - 1) ELSE path

NoEntry == [some |-> FALSE, name |-> <<>>, path |-> <<>>]

\* .find(|(name, _)| name.starts_with(attrib_file)) on the entries.
FirstAttrib(backup_dir, entries, found) ==
    IF found = {} THEN NoEntry
    ELSE [some |-> TRUE, name |-> entries[CHOOSE i \in found : \A j \in found : i <= j],
          path |-> PathJoin(backup_dir,
                            entries[CHOOSE i \in found : \A j \in found : i <= j])]

\* Search::search_attrib_file: read_dir(backup_dir).ok()? gives None when
\* the directory cannot be read.
search_attrib_file(dirs, backup_dir, attrib_file) ==
    IF DirKey(backup_dir) \notin DOMAIN dirs THEN NoEntry
    ELSE FirstAttrib(backup_dir, dirs[DirKey(backup_dir)],
                     {i \in 1..Len(dirs[DirKey(backup_dir)]) :
                         StartsWith(dirs[DirKey(backup_dir)][i], attrib_file)})

AttribErr(kind) == [ok |-> FALSE, kind |-> kind, files |-> <<>>]
AttribOk(files) == [ok |-> TRUE, kind |-> "none", files |-> files]

\* AttributeFile::read_from(&mut reader)?; Ok(attrs.attributes)
AttribDecoded(read) ==
    IF read.status = "Ok" THEN AttribOk(read.attributes) ELSE AttribErr(read.status)

\* The bytes a BackupPCReader gives for the file until its end.
AttribInflated(read) ==
    IF read.err THEN AttribErr("InvalidData")
    ELSE AttribDecoded(AttributeFileReadFrom(read.bytes))

\* Search::read_attrib
read_attrib(fs, file, is_compressed) ==
    IF ~PathExists(fs, file) THEN AttribErr("NotFound")
    ELSE IF is_compressed
    THEN AttribInflated(ReaderReadLoop(fs[file], DefaultBufSize, FALSE, ReaderNew,
                                       Len(fs[file]), <<>>))
    ELSE AttribDecoded(AttributeFileReadFrom(fs[file]))

\* match find_file_in_backuppc(&self.topdir, &md5_hash, None)
AttribLocated(fs, found) ==
    IF found.ok THEN read_attrib(fs, found.path, found.is_compressed)
    ELSE AttribErr("InvalidData")

AttribHashed(fs, topdir, md5_hash) ==
    IF ~md5_hash.ok THEN AttribErr("panic")
    ELSE AttribLocated(fs, find_file_in_backuppc(fs, topdir, md5_hash.bytes, NoCollid))

\* The piece of the path after its last '_'.
AttribToken(fs, topdir, token) ==
    IF token = <<48>> THEN AttribOk(<<>>)
    ELSE AttribHashed(fs, topdir, hex_string_to_vec(token))

AttribFound(fs, topdir, file) ==
    IF file.some
    THEN AttribToken(fs, topdir,
                     SplitByte(file.path, Underscore)[Len(SplitByte(file.path, Underscore))])
    ELSE AttribOk(<<>>)

\* format!("{}/pc/{hostname}/{backup_number}/{}", self.topdir, attrib_path)
BackupDir(topdir, hostname, backup_number, attrib_path) ==
    topdir \o StrPc \o hostname \o <<Slash>> \o ToDecimal(backup_number) \o <<Slash>>
    \o attrib_path

\* Search::list_attributes
search_list_attributes(dirs, fs, topdir, hostname, backup_number, attrib_path, attrib_file) ==
    AttribFound(fs, topdir,
                search_attrib_file(dirs, BackupDir(topdir, hostname, backup_number, attrib_path),
                                   attrib_file))

\* [share, filename] without the None, joined by "/".
MangledPath(share, filename) ==
    IF share.some /\ filename.some THEN share.v \o <<Slash>> \o filename.v
    ELSE IF share.some THEN share.v
    ELSE IF filename.some THEN filename.v
    ELSE <<>>

\* Search::list_file_from_dir
search_list_file_from_dir(dirs, fs, topdir, hostname, backup_number, share, filename) ==
    search_list_attributes(dirs, fs, topdir, hostname, backup_number,
        MangledPath([share EXCEPT !.v = mangle_filename(share.v)],
                    [filename EXCEPT !.v = mangle(filename.v)]),
        StrAttrib \o <<Underscore>>)
(***************************************************************************)
(* filesystem.rs : BackupPCFS, inode numbers and directory listings        *)
(*                                                                         *)
(* st is the adapter: st.inodes the map inode -> CacheElement, st.cache    *)
(* the LRU cache inode -> sorted listing, st.opened the open handles.      *)
(* env is what the adapter runs on: env.list[path] the answer of           *)
(* view.list(path), env.hash[key] the XxHash64 of the joined path,         *)
(* env.overflow_checks whether the build checks integer overflow, and      *)
(* env.files[path] the stream view.read_file(path) gives.                  *)
(***************************************************************************)
\* Inode numbers are u64; the model counts modulo HashSpace.
HashSpace == 8
FsCacheCapacity == 2
FS_CACHE_SIZE == 2048
TTL_HOST == 86400
TTL_BACKUPS == 3600
TTL_REST == 1000000

ROOT_ELEMENT == [path |-> <<>>, parent_ino |-> 0]
RootIno == 1

StrDot == <<46>>
StrDotDot == <<46, 46>>

\* kind: match file.type_ in BackupPCFileAttribute::from_file_attribute
FileKind(type_) ==
    CASE type_ = "Symlink" -> "Symlink"
      [] type_ = "Chardev" -> "CharDevice"
      [] type_ = "Blockdev" -> "BlockDevice"
      [] type_ = "Dir" -> "Directory"
      [] type_ = "Fifo" -> "NamedPipe"
      [] type_ = "Socket" -> "Socket"
      [] OTHER -> "RegularFile"

\* BackupPCFileAttribute::from_file_attribute
from_file_attribute(file, child_ino) ==
    [name |-> file.name, ino |-> child_ino, kind |-> FileKind(file.type_),
     size |-> file.size]

InoOk(ino) == [status |-> "Ok", ino |-> ino]
InoPanic == [status |-> "panic", ino |-> 0]

\* hash += probe * probe on u64: past the largest value the sum wraps, or
\* the program panics when the build checks overflow.
NextProbe(hash, probe, checks) ==
    IF hash + probe * probe >= HashSpace /\ checks THEN InoPanic
    ELSE InoOk((hash + probe * probe) % HashSpace)

\* while self.inodes.contains_key(&hash) { .. }
RECURSIVE ProbeLoop(_, _, _, _, _)
ProbeNext(inodes, elt, probe, checks, next) ==
    IF next.status # "Ok" THEN next
    ELSE ProbeLoop(inodes, elt, next.ino, probe + 1, checks)

ProbeLoop(inodes, elt, hash, probe, checks) ==
    IF hash \notin DOMAIN inodes THEN InoOk(hash)
    ELSE IF inodes[hash] = elt THEN InoOk(hash)
    ELSE IF probe > 4 * HashSpace THEN [status |-> "endless", ino |-> 0]
    ELSE ProbeNext(inodes, elt, probe, checks, NextProbe(hash, probe, checks))

\* BackupPCFS::generate_new_ino
generate_new_ino(inodes, env, elt) ==
    ProbeLoop(inodes, elt, env.hash[JoinSlash(elt.path)], 1, env.overflow_checks)

\* self.view.list(&path)
ViewList(env, path) == IF path \in DOMAIN env.list THEN env.list[path] ELSE Err

Listed(status, inodes, files) == [status |-> status, inodes |-> inodes, files |-> files]

\* The closure of list_files on the files of the listing, one after the other.
RECURSIVE ListFilesLoop(_, _, _, _, _, _, _)
ListFilesInsert(inodes, env, ino, path, files, i, out, key, child) ==
    IF child.status # "Ok" THEN Listed(child.status, inodes, <<>>)
    ELSE ListFilesLoop((child.ino :> key) @@ inodes, env, ino, path, files, i + 1,
                       Append(out, from_file_attribute(files[i], child.ino)))

ListFilesKey(inodes, env, ino, path, files, i, out, key) ==
    ListFilesInsert(inodes, env, ino, path, files, i, out, key,
                    generate_new_ino(inodes, env, key))

ListFilesLoop(inodes, env, ino, path, files, i, out) ==
    IF i > Len(files) THEN Listed("Ok", inodes, out)
    ELSE IF files[i].type_ \in {"Unknown", "Deleted"}
    THEN ListFilesLoop(inodes, env, ino, path, files, i + 1, out)
    ELSE ListFilesKey(inodes, env, ino, path, files, i, out,
                      [path |-> Append(path, files[i].name), parent_ino |-> ino])

\* BackupPCFS::list_files
list_files(inodes, env, ino, path) ==
    IF ~ViewList(env, path).ok THEN Listed("Err", inodes, <<>>)
    ELSE ListFilesLoop(inodes, env, ino, path, ViewList(env, path).files, 1, <<>>)

\* BackupPCFS::list_attributes
fs_list_attributes(inodes, env, ino) ==
    IF ino = 0
    THEN Listed("Ok", inodes, <<[name |-> StrDotDot, ino |-> RootIno, kind |-> "Directory",
                                 size |-> 0]>>)
    ELSE IF ino = RootIno THEN list_files(inodes, env, ino, ROOT_ELEMENT.path)
    ELSE IF ino \in DOMAIN inodes THEN list_files(inodes, env, ino, inodes[ino].path)
    ELSE Listed("Err", inodes, <<>>)

Attributes(status, st, files) == [status |-> status, st |-> st, files |-> files]

\* result.sort_by(..); self.cache.put(ino, result.clone()); Ok(result)
WithCacheSorted(st, ino, inodes, sorted) ==
    Attributes("Ok", [st EXCEPT !.inodes = inodes,
                                !.cache = CachePut(st.cache, FsCacheCapacity, ino, sorted)],
               sorted)

WithCacheListed(st, ino, listed) ==
    IF listed.status # "Ok" THEN Attributes(listed.status, st, <<>>)
    ELSE WithCacheSorted(st, ino, listed.inodes, SortByName(listed.files))

WithCacheHit(st, g) == Attributes("Ok", [st EXCEPT !.cache = g.cache], g.val)

\* BackupPCFS::list_attributes_with_cache
list_attributes_with_cache(st, env, ino) ==
    IF CacheHas(st.cache, ino) THEN WithCacheHit(st, CacheGet(st.cache, ino))
    ELSE WithCacheListed(st, ino, fs_list_attributes(st.inodes, env, ino))

\* ReplyDirectory::add on a buffer with room for `room` entries: the entry
\* is left out when the buffer is full.
ReplyAdd(reply, room, ino, offset, kind, name) ==
    IF Len(reply) >= room THEN reply
    ELSE Append(reply, [ino |-> ino, offset |-> offset, kind |-> kind, name |-> name])

\* The "." and ".." entries of fill_reply_from_files.
FillDots(st, ino, offset, room) ==
    IF ino # RootIno /\ offset = 0 /\ ino \in DOMAIN st.inodes
    THEN ReplyAdd(ReplyAdd(<<>>, room, ino, 1, "Directory", StrDot),
                  room, st.inodes[ino].parent_ino, 2, "Directory", StrDotDot)
    ELSE <<>>

\* for (current_offset, cache_element) in elements.iter().enumerate()
RECURSIVE FillLoop(_, _, _, _, _)
FillLoop(elements, i, offset, room, reply) ==
    IF i > Len(elements) THEN reply
    ELSE IF i + 1 <= offset THEN FillLoop(elements, i + 1, offset, room, reply)
    ELSE IF Len(reply) >= room THEN reply
    ELSE FillLoop(elements, i + 1, offset, room,
                  ReplyAdd(reply, room, elements[i].ino, i + 1, elements[i].kind,
                           elements[i].name))

Filled(status, st, reply) == [status |-> status, st |-> st, reply |-> reply]

FillListed(ino, offset, room, l) ==
    IF l.status # "Ok" THEN Filled(l.status, l.st, <<>>)
    ELSE Filled("Ok", l.st, FillLoop(l.files, 1, offset, room,
                                     FillDots(l.st, ino, offset, room)))

\* BackupPCFS::fill_reply_from_files
fill_reply_from_files(st, env, ino, offset, room) ==
    FillListed(ino, offset, room, list_attributes_with_cache(st, env, ino))

NoAttr == [some |-> FALSE, ino |-> 0, kind |-> "none", size |-> 0]

\* attrs.into_iter().find(|attr| attr.name.as_str() == name)
FindAttr(files, found) ==
    IF found = {} THEN NoAttr
    ELSE [some |-> TRUE, ino |-> files[CHOOSE i \in found : \A j \in found : i <= j].ino,
          kind |-> files[CHOOSE i \in found : \A j \in found : i <= j].kind,
          size |-> files[CHOOSE i \in found : \A j \in found : i <= j].size]

FileAttrListed(name, duration, l) ==
    IF l.status # "Ok" THEN [status |-> l.status, st |-> l.st, attr |-> NoAttr, ttl |-> duration]
    ELSE [status |-> "Ok", st |-> l.st, ttl |-> duration,
          attr |-> FindAttr(l.files, {i \in 1..Len(l.files) : l.files[i].name = name})]

\* match ino { 1 => Some(&ROOT_ELEMENT), _ => self.inodes.get(&ino) }
CacheElementOf(st, ino) == IF ino = RootIno THEN ROOT_ELEMENT ELSE st.inodes[ino]

\* match cache_element.path.len() { 0 => TTL_HOST, 1 => TTL_BACKUPS, _ => TTL_REST }
DurationOf(cache_element) ==
    IF Len(cache_element.path) = 0 THEN TTL_HOST
    ELSE IF Len(cache_element.path) = 1 THEN TTL_BACKUPS
    ELSE TTL_REST

\* BackupPCFS::get_file_attr
get_file_attr(st, env, ino, name) ==
    IF ino # RootIno /\ ino \notin DOMAIN st.inodes
    THEN [status |-> "Ok", st |-> st, attr |-> NoAttr, ttl |-> 0]
    ELSE FileAttrListed(name, DurationOf(CacheElementOf(st, ino)),
                        list_attributes_with_cache(st, env, ino))

\* get_attr once the listing of the parent is there:
\* attrs.into_iter().find(|attr| attr.attr.ino == ino)
AttrListed(ino, duration, l) ==
    IF l.status # "Ok" THEN [status |-> l.status, st |-> l.st, attr |-> NoAttr, ttl |-> duration]
    ELSE [status |-> "Ok", st |-> l.st, ttl |-> duration,
          attr |-> FindAttr(l.files, {i \in 1..Len(l.files) : l.files[i].ino = ino})]

\* BackupPCFS::get_attr
get_attr(st, env, ino) ==
    IF ino # RootIno /\ ino \notin DOMAIN st.inodes
    THEN [status |-> "Ok", st |-> st, attr |-> NoAttr, ttl |-> 0]
    ELSE AttrListed(ino, DurationOf(CacheElementOf(st, ino)),
                    list_attributes_with_cache(st, env, CacheElementOf(st, ino).parent_ino))
(***************************************************************************)
(* filesystem.rs : open handles and reads                                  *)
(*                                                                         *)
(* env.files[path] is the stream view.read_file(path) opens: its kind      *)
(* ("empty" for io::empty, "buf" for a BufReader over a pool file, "bpc"   *)
(* for a BackupPCReader over a cpool file), the bytes of the file on disk, *)
(* the capacity of the BufReader and the read-ahead of the inflater.  A    *)
(* reader is the kind and path of its stream, the bytes taken from the     *)
(* file (pos), the bytes left in the buffer of the BufReader (buf) and     *)
(* the BackupPCReader (r).                                                 *)
(***************************************************************************)
SkipChunk == 32768

NewStream(env, path) ==
    [kind |-> env.files[path].kind, path |-> path, pos |-> 0, buf |-> <<>>, r |-> ReaderNew]

NoStream == [kind |-> "none", path |-> <<>>, pos |-> 0, buf |-> <<>>, r |-> ReaderNew]

StreamRes(reader, err, bytes) == [reader |-> reader, err |-> err, bytes |-> bytes]

\* File::read on a regular file: what is left, up to n bytes.
ReadOfFile(bytes, pos, n) == SubSeq(bytes, pos + 1, Min(pos + n, Len(bytes)))

\* BufReader::read once the buffer holds bytes: rem.read(buf); consume(nread)
BufTake(reader, n) ==
    StreamRes([reader EXCEPT !.buf = SubSeq(reader.buf, Min(n, Len(reader.buf)) + 1,
                                            Len(reader.buf))],
              FALSE, SubSeq(reader.buf, 1, Min(n, Len(reader.buf))))

\* BufReader::fill_buf on an empty buffer: one read of the file into it.
BufFill(f, reader) ==
    [reader EXCEPT !.buf = ReadOfFile(f.bytes, reader.pos, f.cap),
                   !.pos = reader.pos + Len(ReadOfFile(f.bytes, reader.pos, f.cap))]

\* BufReader::read: a read of at least the capacity with an empty buffer
\* goes to the file, any other read takes from the buffer what it holds.
BufReaderRead(f, reader, n) ==
    IF reader.buf = <<>> /\ n >= f.cap
    THEN StreamRes([reader EXCEPT !.pos = reader.pos + Len(ReadOfFile(f.bytes, reader.pos, n))],
                   FALSE, ReadOfFile(f.bytes, reader.pos, n))
    ELSE IF reader.buf = <<>> THEN BufTake(BufFill(f, reader), n)
    ELSE BufTake(reader, n)

BpcRead(reader, res) == StreamRes([reader EXCEPT !.r = res.r], res.err, res.bytes)

\* Read::read of the Box<dyn Read> with a buffer of n bytes.
StreamRead(env, reader, n) ==
    IF reader.kind = "empty" THEN StreamRes(reader, FALSE, <<>>)
    ELSE IF reader.kind = "buf" THEN BufReaderRead(env.files[reader.path], reader, n)
    ELSE BpcRead(reader, ReaderReadLoop(env.files[reader.path].bytes,
                                        env.files[reader.path].cap,
                                        env.files[reader.path].eager, reader.r, n, <<>>))

Created(status, reader) == [status |-> status, reader |-> reader]

\* self.view.read_file(&path_refs)
ViewReadFile(env, path) ==
    IF path \in DOMAIN env.files THEN Created("Ok", NewStream(env, path))
    ELSE Created("Err", NoStream)

\* BackupPCFS::create_reader
create_reader(st, env, ino) ==
    IF ino = RootIno THEN ViewReadFile(env, ROOT_ELEMENT.path)
    ELSE IF ino \in DOMAIN st.inodes THEN ViewReadFile(env, st.inodes[ino].path)
    ELSE Created("Err", NoStream)

\* BackupPCFS::generate_file_handle: random handles until one is unused;
\* `first` is the first draw and `unused` the first draw that is unused.
generate_file_handle(opened, first, unused) ==
    IF first \notin DOMAIN opened THEN first ELSE unused

Opened(status, st, fh) == [status |-> status, st |-> st, fh |-> fh]

OpenedFile(offset, reader) == [offset |-> offset, reader |-> reader]

\* An open that enters the handle before it looks at the reader.
OpenInsertFirst(st, fh, c) ==
    IF c.status # "Ok"
    THEN Opened("Err", [st EXCEPT !.opened = (fh :> OpenedFile(0, c.reader)) @@ st.opened], 0)
    ELSE Opened("Ok", [st EXCEPT !.opened = (fh :> OpenedFile(0, c.reader)) @@ st.opened], fh)

\* let reader = self.create_reader(ino)?; self.opened.insert(fh, ..); Ok(fh)
OpenInsert(st, fh, c) ==
    IF c.status # "Ok" THEN Opened("Err", st, 0)
    ELSE Opened("Ok", [st EXCEPT !.opened = (fh :> OpenedFile(0, c.reader)) @@ st.opened], fh)

\* BackupPCFS::open
open(st, env, ino, first, unused) ==
    OpenInsert(st, generate_file_handle(st.opened, first, unused), create_reader(st, env, ino))

\* BackupPCFS::release
release(st, fh) ==
    [st EXCEPT !.opened = [h \in DOMAIN st.opened \ {fh} |-> st.opened[h]]]

ReadRes(status, st, data) == [status |-> status, st |-> st, data |-> data]

SetOpened(st, fh, of) == [st EXCEPT !.opened = (fh :> of) @@ st.opened]

\* let size = reader.read(&mut buffer)?; opened_file.offset += size
ReadData(st, fh, of, s) ==
    IF s.err THEN ReadRes("Err", SetOpened(st, fh, OpenedFile(of.offset, s.reader)), <<>>)
    ELSE ReadRes("Ok", SetOpened(st, fh, OpenedFile(of.offset + Len(s.bytes), s.reader)),
                 s.bytes)

\* while remaining > 0 { .. }
RECURSIVE SkipLoop(_, _, _)
SkipRead(env, remaining, s) ==
    IF s.err THEN [reader |-> s.reader, err |-> TRUE]
    ELSE IF s.bytes = <<>> THEN [reader |-> s.reader, err |-> FALSE]
    ELSE SkipLoop(env, s.reader, remaining - Len(s.bytes))

SkipLoop(env, reader, remaining) ==
    IF remaining <= 0 THEN [reader |-> reader, err |-> FALSE]
    ELSE SkipRead(env, remaining, StreamRead(env, reader, Min(remaining, SkipChunk)))

ReadSkipped(st, env, fh, of, offset, size, k) ==
    IF k.err THEN ReadRes("Err", SetOpened(st, fh, OpenedFile(of.offset, k.reader)), <<>>)
    ELSE ReadData(st, fh, OpenedFile(offset, k.reader), StreamRead(env, k.reader, size))

\* if offset > opened_file.offset { .. }
ReadForward(st, env, fh, of, offset, size) ==
    IF offset > of.offset
    THEN ReadSkipped(st, env, fh, of, offset, size,
                     SkipLoop(env, of.reader, offset - of.offset))
    ELSE ReadData(st, fh, of, StreamRead(env, of.reader, size))

ReadReset(st, env, fh, offset, size, c) ==
    IF c.status # "Ok" THEN ReadRes("Err", st, <<>>)
    ELSE ReadForward(st, env, fh, OpenedFile(0, c.reader), offset, size)

\* BackupPCFS::read_ino
read_ino(st, env, ino, fh, offset, size) ==
    IF fh \notin DOMAIN st.opened THEN ReadRes("Err", st, <<>>)
    ELSE IF offset < st.opened[fh].offset
    THEN ReadReset(st, env, fh, offset, size, create_reader(st, env, ino))
    ELSE ReadForward(st, env, fh, st.opened[fh], offset, size)
(***************************************************************************)
(* The disks the view is run on                                            *)
(***************************************************************************)
MaxBackups == 3
CacheCapacity == 2

\* The backups files: backups 1..MaxBackups, each filled or not.
Manifests ==
    {[i \in 1..MaxBackups |-> [num |-> i, no_fill |-> nf[i], start_time |-> 10 * i]] :
        nf \in [1..MaxBackups -> {0, 1}]}

NameA == <<97>>
NameB == <<98>>
NameC == <<99>>

\* A record of the directory in backup b, the k-th of its listing; mtime and
\* size tell where the record comes from, the digest is the record's own.
DirRecord(b, k, name, type_, nlinks, inode) ==
    [NoRecord EXCEPT !.name = name, !.type_ = type_, !.nlinks = nlinks,
                     !.inode = inode, !.mtime = b, !.size = k,
                     !.bpc_digest = [len |-> 3, digest |-> <<100 + b, k, 0>>]]

\* What the directory can hold in backup b.  Inodes 1 and 2 live in the
\* same per-inode table, inode 1024 in another.
Listings(b) ==
    { Ok(<< DirRecord(b, 1, NameA, "File", 0, 0),
            DirRecord(b, 2, NameB, "File", 2, 1) >>),
      Ok(<< DirRecord(b, 1, NameC, "Dir", 1, 1024),
            DirRecord(b, 2, NameA, "Symlink", 0, 0),
            DirRecord(b, 3, NameA, "Deleted", 0, 0) >>),
      Ok(<< DirRecord(b, 1, NameA, "File", 1, 2),
            DirRecord(b, 2, NameB, "Deleted", 0, 0),
            DirRecord(b, 3, NameB, "File", 0, 0) >>),
      Err }

TableKinds == {"full", "partial", "err"}

\* A disk has at most one unreadable directory, and then readable tables.
MergeDisks ==
    {dk \in {[manifest |-> m, dirs |-> d, tables |-> t, shares |-> Ok(<<>>),
              echo |-> FALSE, backups_err |-> "none"] :
                m \in Manifests,
                d \in {f \in [1..MaxBackups -> UNION {Listings(b) : b \in 1..MaxBackups}] :
                          \A b \in 1..MaxBackups : f[b] \in Listings(b)},
                t \in TableKinds} :
        LET bad == {b \in 1..MaxBackups : ~dk.dirs[b].ok}
        IN bad = {} \/ (Cardinality(bad) = 1 /\ dk.tables = "full")}

\* "s" and "d": the share and the directory the merge is asked for.
ShareS == <<115>>
DirD == <<100>>

\* Share names and path components.
StrHome == <<104, 111, 109, 101>>
StrVolume1 == <<118, 111, 108, 117, 109, 101, 49>>
StrTest == <<116, 101, 115, 116>>
StrTest2 == <<116, 101, 115, 116, 50>>
StrOne == <<49>>

ShareSets ==
    { {},
      {<<Slash>> \o NameA, <<Slash>> \o NameA \o <<Slash>> \o NameB},
      {NameA \o <<Slash>> \o NameB, <<Slash>> \o NameA \o <<Slash, Slash>>},
      {NameA \o <<Slash>> \o NameB, <<Slash>> \o NameA \o <<Slash>>},
      {<<Slash>> \o StrHome, <<Slash>> \o StrVolume1 \o <<Slash>> \o StrTest,
       <<Slash>> \o StrVolume1 \o <<Slash>> \o StrTest2} }

ShareDisks ==
    {[manifest |-> [i \in 1..MaxBackups |->
                       [num |-> i, no_fill |-> 0, start_time |-> 10 * i]],
      dirs |-> [b \in 1..MaxBackups |-> Ok(<<>>)], tables |-> "full",
      shares |-> Ok(SortByName(AnyOrderSeq({from_share(s) : s \in S}))),
      echo |-> TRUE, backups_err |-> "none"] : S \in ShareSets}

\* The paths list is asked for.
ListPaths ==
    { <<>>, <<HostH>>, <<HostH, StrOne>>,
      <<HostH, StrOne, NameA>>, <<HostH, StrOne, NameA, NameB>>,
      <<HostH, StrOne, NameA, NameB, NameC>>, <<HostH, StrOne, NameB>>,
      <<HostH, StrOne, StrVolume1>>, <<HostH, StrOne, StrVolume1, StrTest>> }

(***************************************************************************)
(* Inputs of the pool locator                                              *)
(***************************************************************************)
TopDir == <<Slash, 116>>
TopDirs == {TopDir, <<Slash, 117>>}

\* Where BackupPC stores the file of a digest (collision number k, if any),
\* in the pool (uncompressed) or in the cpool (compressed).
StoredPath(compressed, digest, k) ==
    TopDir \o <<Slash>> \o (IF compressed THEN StrCpool ELSE StrPool) \o <<Slash>>
    \o Hex2(2 * (digest[1] \div 2)) \o <<Slash>> \o Hex2(2 * (digest[2] \div 2))
    \o <<Slash>> \o (IF k.some THEN HexMin2(k.v) ELSE <<>>) \o vec_to_hex_string(digest)

DigestAbCd == <<171, 205>>
DigestAbCd01 == <<171, 205, 1>>
StoredDigests == {DigestAbCd, DigestAbCd01}
StoredCollids == {NoCollid, SomeCollid(1)}

StoredPaths ==
    {StoredPath(c, d, k) : c \in BOOLEAN, d \in StoredDigests, k \in StoredCollids}

\* The pools of the model: any set of stored files, their bytes left empty.
PoolStores == {[p \in S |-> <<>>] : S \in SUBSET StoredPaths}

FindDigests == StoredDigests \cup {<<>>, <<171>>, <<170, 204>>}
FindCollids == StoredCollids \cup {SomeCollid(0), SomeCollid(255), SomeCollid(256)}
(***************************************************************************)
(* Inputs of read_file                                                     *)
(***************************************************************************)
NameE == <<101>>
NameF == <<102>>
NameZ == <<122>>
DigestNotStored == <<170, 204, 0>>

FileRecord(name, digest) ==
    [NoRecord EXCEPT !.name = name, !.type_ = "File",
                     !.bpc_digest = [len |-> Len(digest), digest |-> digest]]

\* The directory "d" of share "s": a file with a digest of the pool, files
\* whose digest has 2 bytes, is the MD5 of nothing or is missing, and a file
\* whose digest no pool file has.
ReadListing ==
    << FileRecord(NameA, DigestAbCd01), FileRecord(NameB, DigestAbCd),
       FileRecord(NameC, EMPTY_MD5_DIGEST), FileRecord(NameE, <<>>),
       FileRecord(NameF, DigestNotStored) >>

ReadDisks ==
    {[manifest |-> [i \in 1..MaxBackups |->
                       [num |-> i, no_fill |-> 0, start_time |-> 10 * i]],
      dirs |-> [b \in 1..MaxBackups |-> IF b = 1 THEN d ELSE Ok(<<>>)],
      tables |-> "full", shares |-> Ok(<<from_share(ShareS)>>), echo |-> FALSE, backups_err |-> "none"] :
        d \in {Ok(ReadListing), Err}}

\* The pool holds any of the pool file and the cpool file of ab cd 01, with
\* or without files for the 2-byte digest and for the MD5 of nothing.
ReadStoredPaths ==
    { StoredPath(FALSE, DigestAbCd01, NoCollid), StoredPath(TRUE, DigestAbCd01, NoCollid) }

ReadEmptyPaths ==
    { StoredPath(FALSE, DigestAbCd, NoCollid), StoredPath(TRUE, EMPTY_MD5_DIGEST, NoCollid) }

ReadStores ==
    {[p \in S \cup T |-> <<>>] : S \in SUBSET ReadStoredPaths, T \in {{}, ReadEmptyPaths}}

ReadDir == <<HostH, StrOne, ShareS, DirD>>

ReadPaths ==
    {ReadDir \o <<n>> : n \in {NameA, NameB, NameC, NameE, NameF, NameZ}}
    \cup {<<>>, <<HostH, StrOne>>, <<HostH, StrOne, ShareS>>}
(***************************************************************************)
(* Inputs of Hosts::list_backups                                           *)
(***************************************************************************)
MaxLines == 2

StrFull == <<102, 117, 108, 108>>
StrRsync == <<114, 115, 121, 110, 99>>
StrX == <<120>>

RECURSIVE JoinByte(_, _)
JoinByte(parts, sep) ==
    IF parts = <<>> THEN <<>>
    ELSE IF Len(parts) = 1 THEN parts[1]
    ELSE parts[1] \o <<sep>> \o JoinByte(Tail(parts), sep)

\* The 25 fields of the line of backup n as BackupPC writes it.
GoodFields(n) ==
    << ToDecimal(n), StrFull, ToDecimal(10 * n), ToDecimal(10 * n + 5), <<50>>, <<57, 57>>,
       <<49>>, <<52>>, <<49>>, <<53>>, <<48>>, <<48>>, <<48>>, <<48>>, <<51>>, <<50>>, <<50>>,
       <<49>>, <<45, 49>>, <<49>>, StrRsync, <<48>>, <<>>, <<52, 46, 52>>, <<55>> >>

\* The lines of the model: well formed; with numbers that do not parse; with
\* every field empty; with one field too many; with the last field missing;
\* with one field; empty.
LineFields ==
    { GoodFields(1), GoodFields(12),
      [GoodFields(3) EXCEPT ![1] = StrX, ![3] = <<49, 120>>, ![18] = <<45, 49>>,
                            ![19] = StrX, ![25] = <<>>],
      [i \in 1..25 |-> <<>>],
      GoodFields(4) \o <<StrX>>,
      SubSeq(GoodFields(5), 1, 24),
      <<ToDecimal(6)>>,
      <<<<>>>> }

ManifestLines == {JoinByte(f, Tab) : f \in LineFields}

ManifestTexts ==
    {JoinByte(ls, Newline) \o end :
        ls \in UNION {[1..n -> ManifestLines] : n \in 0..MaxLines},
        end \in {<<>>, <<Newline>>}}

ManifestFiles == {NoFile} \cup {[exists |-> TRUE, text |-> t] : t \in ManifestTexts}
(***************************************************************************)
(* Inputs of the attribute locator                                         *)
(***************************************************************************)
HostG == <<103>>
NameD == DirD

\* A record whose encoding has no zero byte, so that the same bytes can be
\* the payload of a compressed frame of the model.
LocRecord ==
    MakeRecord(NameA, "Dir", 1, DigestAbCd01, << [key |-> <<107>>, value |-> <<118>>] >>)

AttribStream == MagicBytes \o EncodeRecord(LocRecord)

StrAttribZero == StrAttrib \o <<Underscore, 48>>
StrAttribAbCd01 == StrAttrib \o <<Underscore>> \o vec_to_hex_string(DigestAbCd01)
StrAttribAb == StrAttrib \o <<Underscore, 97, 98>>
StrAttribBadHex == StrAttrib \o <<Underscore, 122, 122>>

\* topdir/pc/h/1/fs/fd : the directory "d" of share "s", backup 1 of host h.
DirOfD == BackupDir(TopDir, HostH, 1, <<LetterF, 115, Slash, LetterF, 100>>)
DirOfS == BackupDir(TopDir, HostH, 1, <<LetterF, 115>>)
DirOfBackup == DirKey(BackupDir(TopDir, HostH, 1, <<>>))

\* What the directory "d" holds, if it exists.
DirEntries ==
    { <<>>, <<StrAttribZero>>, <<StrAttribAbCd01>>, <<NameA, StrAttribAbCd01>>,
      <<StrAttribAb>>, <<StrAttribBadHex>> }

\* The trees of the model: nothing; the backup without the share; the share
\* without the directory; the directory with its entries.
Parents == (DirOfBackup :> <<<<LetterF, 115>>>>) @@ (DirOfS :> <<StrAttribZero, <<LetterF, 100>>>>)

Trees ==
    { <<>>, (DirOfBackup :> <<>>), Parents }
    \cup {Parents @@ (DirOfD :> e) : e \in DirEntries}

\* The pool holds the attribute file under its digest, compressed or not.
SearchStores ==
    {[p \in S |-> IF p = StoredPath(TRUE, DigestAbCd01, NoCollid)
                  THEN CompressFrame([header |-> 214, payload |-> AttribStream])
                  ELSE AttribStream] :
        S \in SUBSET {StoredPath(c, DigestAbCd01, NoCollid) : c \in BOOLEAN}}
(***************************************************************************)
(* Inputs of the listing of a host                                         *)
(***************************************************************************)
\* The errors HostsTrait::list_backups can give: io errors of two kinds and
\* an error that is no io error.
BackupsErrors == {"NotFound", "PermissionDenied", "NotIo"}

HostDisk(m, e) ==
    [manifest |-> m, dirs |-> [b \in 1..MaxBackups |-> Ok(<<>>)], tables |-> "full",
     shares |-> Ok(<<>>), echo |-> TRUE, backups_err |-> e]

\* Host h with a backups file, or with a backups file that cannot be read.
HostDisks ==
    {HostDisk(m, "none") : m \in Manifests \cup {<<>>}}
    \cup {HostDisk(<<>>, e) : e \in BackupsErrors}

HostPaths == {<<>>, <<HostH>>, <<HostG>>, <<StrOne>>}
(***************************************************************************)
(* Inputs of the adapter: directory listings                               *)
(***************************************************************************)
MaxReplyRoom == 3

FsEntry(name, type_) == [NoRecord EXCEPT !.name = name, !.type_ = type_, !.size = Len(name)]

\* What the view lists: two hosts under the root, host "h" with a file, a
\* directory and a deleted file (not in name order), host "g" with nothing.
FsListings ==
    { (<<>> :> Ok(<<FsEntry(HostH, "Dir"), FsEntry(HostG, "Dir")>>))
      @@ (<<HostH>> :> Ok(<<FsEntry(NameB, "File"), FsEntry(NameA, "Dir"),
                            FsEntry(NameZ, "Deleted")>>))
      @@ (<<HostG>> :> Ok(<<>>))
      @@ (<<HostH, NameA>> :> Ok(<<FsEntry(NameB, "Symlink")>>)) }

\* XxHash64 of the '/'-joined path, for the paths of the listings.
HashOf(h, g, ha, hb, hab) ==
    (JoinSlash(<<HostH>>) :> h) @@ (JoinSlash(<<HostG>>) :> g)
    @@ (JoinSlash(<<HostH, NameA>>) :> ha) @@ (JoinSlash(<<HostH, NameB>>) :> hb)
    @@ (JoinSlash(<<HostH, NameA, NameB>>) :> hab)

\* Hashes that are all different, hashes that collide, hashes that collide
\* on the largest number, and a hash that is the number of the root.
HashFunctions ==
    { HashOf(2, 3, 4, 5, 6), HashOf(2, 2, 2, 3, 2),
      HashOf(HashSpace - 1, HashSpace - 1, 3, 3, 4), HashOf(2, 3, RootIno, 5, 5) }

DirEnvs ==
    { [list |-> l, hash |-> h, overflow_checks |-> c, files |-> <<>>] :
        l \in FsListings, h \in HashFunctions, c \in BOOLEAN }

FsNames == {HostH, NameA, NameB, NameZ}
(***************************************************************************)
(* Inputs of the adapter: files to open and read                           *)
(***************************************************************************)
MaxHandles == 2
MaxOffset == 5
MaxReadSize == 3

\* Host "h" with four files.
ReadListings ==
    (<<>> :> Ok(<<FsEntry(HostH, "Dir")>>))
    @@ (<<HostH>> :> Ok(<<FsEntry(NameA, "File"), FsEntry(NameB, "File"),
                          FsEntry(NameE, "File"), FsEntry(NameZ, "File")>>))

ReadHash ==
    (JoinSlash(<<HostH>>) :> 2) @@ (JoinSlash(<<HostH, NameA>>) :> 3)
    @@ (JoinSlash(<<HostH, NameB>>) :> 4) @@ (JoinSlash(<<HostH, NameE>>) :> 5)
    @@ (JoinSlash(<<HostH, NameZ>>) :> 6)

\* The cpool file of "b": two frames.
CpoolOfB == [frames |-> <<[header |-> 214, payload |-> <<7, 215>>],
                          [header |-> 215, payload |-> <<179>>]>>, tail |-> <<>>]

\* "a" is a pool file of four bytes, "b" a cpool file, "e" has the digest of
\* the empty input, and "z" has no file in the pool.
ReadFiles(c, e) ==
    (<<HostH, NameA>> :> [kind |-> "buf", bytes |-> <<10, 20, 30, 40>>, cap |-> c,
                          eager |-> e])
    @@ (<<HostH, NameB>> :> [kind |-> "bpc", bytes |-> PoolFile(CpoolOfB), cap |-> c,
                             eager |-> e])
    @@ (<<HostH, NameE>> :> [kind |-> "empty", bytes |-> <<>>, cap |-> c, eager |-> e])

ReadEnvs ==
    { [list |-> ReadListings, hash |-> ReadHash, overflow_checks |-> FALSE,
       files |-> ReadFiles(c, e)] : c \in {MaxBufCap, DefaultBufSize}, e \in BOOLEAN }

\* The content of a file: what reading its stream to the end gives.
Content(f) ==
    IF f.kind = "buf" THEN f.bytes
    ELSE IF f.kind = "bpc" THEN PoolPayload(CpoolOfB)
    ELSE <<>>
(***************************************************************************)
(* The idle value of each component's variables                            *)
(***************************************************************************)
\* No read has been made yet.
NotRead == [status |-> "NotRead", attributes |-> <<>>]

DecodeIdle ==
    /\ attrInput = [header |-> <<>>, recs |-> <<>>, tail |-> NoDamage]
    /\ attrResult = NotRead

NoRead == [n |-> 0, count |-> 0, err |-> FALSE, before |-> 0, afterZero |-> FALSE]

ReaderIdle ==
    /\ pool = [frames |-> <<>>, tail |-> <<>>, cap |-> DefaultBufSize, eager |-> FALSE]
    /\ rd = ReaderNew
    /\ delivered = <<>>
    /\ lastRead = NoRead


NoMerge == [n |-> 0, ok |-> FALSE, files |-> {}, chain |-> <<>>]

NoList == [path |-> <<>>, called |-> FALSE, ok |-> FALSE, files |-> <<>>]

ViewIdle ==
    /\ disk = [manifest |-> <<>>, dirs |-> <<>>, tables |-> "full",
               shares |-> Ok(<<>>), echo |-> FALSE, backups_err |-> "none"]
    /\ cache = <<>>
    /\ mergeOut = NoMerge
    /\ listOut = NoList


NoFind == [called |-> FALSE, topdir |-> <<>>, file_hash |-> <<>>, collid |-> NoCollid,
           res |-> FindErr("none")]

PoolIdle ==
    /\ pfs = <<>>
    /\ findOut = NoFind

NoReadFile == [called |-> FALSE, path |-> <<>>, listed |-> Err, res |-> ReadFileErr("none", <<>>)]

NoBackups == [called |-> FALSE, res |-> BackupsErr("none")]

HostsIdle ==
    /\ manifestFile = NoFile
    /\ backupsOut = NoBackups

NoAttrib == [called |-> FALSE, backup_dir |-> <<>>, res |-> AttribErr("none")]

SearchIdle ==
    /\ tree = <<>>
    /\ attrOut = NoAttrib

NoEnv == [list |-> <<>>, hash |-> <<>>, overflow_checks |-> FALSE, files |-> <<>>]

\* BackupPCFS::new
FsNew == [inodes |-> <<>>, cache |-> <<>>, opened |-> <<>>, crashed |-> FALSE]

NoDir == [called |-> FALSE, op |-> "none", ino |-> 0, offset |-> 0, room |-> 0,
          status |-> "none", reply |-> <<>>]

NoSession == [active |-> FALSE, ino |-> 0, got |-> <<>>, done |-> FALSE]

NoFsRead == [called |-> FALSE, op |-> "none", ino |-> 0, fh |-> 0, offset |-> 0, size |-> 0,
             status |-> "none", data |-> <<>>, before |-> <<>>]

FsIdle ==
    /\ fsEnv = NoEnv
    /\ bpcfs = FsNew
    /\ dirOut = NoDir
    /\ session = NoSession
    /\ exposed = {}
    /\ readOut = NoFsRead

NoCall == [fn |-> "none"]

NoRet == [done |-> FALSE]

UtilIdle ==
    /\ call = NoCall
    /\ ret = NoRet

ExtIdle ==
    /\ PoolIdle
    /\ fileOut = NoReadFile
    /\ HostsIdle
    /\ SearchIdle
    /\ FsIdle
    /\ UtilIdle
(***************************************************************************)
(* Specification of the attribute decoder                                  *)
(***************************************************************************)
DecodeInit ==
    /\ attrInput \in AttrInputs
    /\ attrResult = NotRead
    /\ ReaderIdle
    /\ ViewIdle
    /\ ExtIdle

\* AttributeFile::read_from(reader) on the stream.
AttributeRead ==
    /\ attrResult = NotRead
    /\ attrResult' = AttributeFileReadFrom(AttrStream(attrInput))
    /\ UNCHANGED attrInput
    /\ UNCHANGED readerVars
    /\ UNCHANGED viewVars
    /\ UNCHANGED extVars

DecodeNext == AttributeRead

SpecDecode == DecodeInit /\ [][DecodeNext]_vars

(***************************************************************************)
(* Specification of the decompressor                                       *)
(***************************************************************************)
ReaderInit ==
    /\ pool \in Pools
    /\ rd = ReaderNew
    /\ delivered = <<>>
    /\ lastRead = NoRead
    /\ DecodeIdle
    /\ ViewIdle
    /\ ExtIdle

\* One BackupPCReader::read(buf) with a buffer of n bytes.
ReaderRead(n) ==
    LET res == ReaderReadLoop(PoolFile(pool), pool.cap, pool.eager, rd, n, <<>>)
    IN /\ rd' = res.r
       /\ delivered' = delivered \o res.bytes
       /\ lastRead' = [n |-> n, count |-> Len(res.bytes), err |-> res.err,
                       before |-> Len(delivered),
                       afterZero |-> lastRead.afterZero
                                     \/ (lastRead.n > 0 /\ ~lastRead.err
                                         /\ lastRead.count = 0)]
       /\ UNCHANGED pool
       /\ UNCHANGED decodeVars
       /\ UNCHANGED viewVars
       /\ UNCHANGED extVars

ReaderNext == \E n \in 1..MaxBuf : ReaderRead(n)

SpecReader == ReaderInit /\ [][ReaderNext]_vars

(***************************************************************************)
(* Specification of the merge / fill engine                                *)
(***************************************************************************)
MergeInit ==
    /\ disk \in MergeDisks
    /\ cache = <<>>
    /\ mergeOut = NoMerge
    /\ listOut = NoList
    /\ DecodeIdle
    /\ ReaderIdle
    /\ ExtIdle

\* BackupPC::list_file_from_dir(HostH, n, Some("s"), Some("d"))
MergeCall(n) ==
    LET res == list_file_from_dir(cache, CacheCapacity, disk, HostH, n,
                                  SomeStr(ShareS), SomeStr(DirD))
    IN /\ mergeOut' = [n |-> n, ok |-> res.ok, files |-> res.files,
                       chain |-> list_backups_to_fill(ManifestOf(disk, HostH), n)]
       /\ cache' = res.cache
       /\ UNCHANGED <<disk, listOut>>
       /\ UNCHANGED decodeVars
       /\ UNCHANGED readerVars
       /\ UNCHANGED extVars

MergeNext == \E n \in 1..MaxBackups : MergeCall(n)

SpecMerge == MergeInit /\ [][MergeNext]_vars

(***************************************************************************)
(* Specification of the listing of shares and paths                        *)
(***************************************************************************)
ShareInit ==
    /\ disk \in ShareDisks
    /\ cache = <<>>
    /\ mergeOut = NoMerge
    /\ listOut = NoList
    /\ DecodeIdle
    /\ ReaderIdle
    /\ ExtIdle

\* BackupPC::list(path); perm is the order in which the map of the merged
\* share records gives its values during the call.
List(path, perm) ==
    LET res == list(cache, CacheCapacity, disk, path, perm)
    IN /\ listOut' = [path |-> path, called |-> TRUE, ok |-> res.ok,
                      files |-> res.files]
       /\ cache' = res.cache
       /\ UNCHANGED <<disk, mergeOut>>
       /\ UNCHANGED decodeVars
       /\ UNCHANGED readerVars
       /\ UNCHANGED extVars

ShareNext ==
    \E path \in ListPaths :
        \E perm \in Orders({f.name : f \in Range(disk.shares.files)}) :
            List(path, perm)

SpecShares == ShareInit /\ [][ShareNext]_vars


(***************************************************************************)
(* Specification of the pool locator                                       *)
(***************************************************************************)
PoolInit ==
    /\ pfs \in PoolStores
    /\ findOut = NoFind
    /\ fileOut = NoReadFile
    /\ HostsIdle
    /\ SearchIdle
    /\ DecodeIdle
    /\ UtilIdle
    /\ FsIdle
    /\ ReaderIdle
    /\ ViewIdle

\* find_file_in_backuppc(topdir, file_hash, collid)
Find(topdir, file_hash, collid) ==
    /\ findOut' = [called |-> TRUE, topdir |-> topdir, file_hash |-> file_hash,
                   collid |-> collid,
                   res |-> find_file_in_backuppc(pfs, topdir, file_hash, collid)]
    /\ UNCHANGED <<pfs, fileOut>>
    /\ UNCHANGED hostsVars
    /\ UNCHANGED searchVars
    /\ UNCHANGED decodeVars
    /\ UNCHANGED utilVars
    /\ UNCHANGED fsVars
    /\ UNCHANGED readerVars
    /\ UNCHANGED viewVars

PoolNext ==
    \E topdir \in TopDirs : \E file_hash \in FindDigests : \E collid \in FindCollids :
        Find(topdir, file_hash, collid)

SpecPool == PoolInit /\ [][PoolNext]_vars

(***************************************************************************)
(* Specification of read_file                                              *)
(***************************************************************************)
ReadFileInit ==
    /\ disk \in ReadDisks
    /\ cache = <<>>
    /\ mergeOut = NoMerge
    /\ listOut = NoList
    /\ pfs \in ReadStores
    /\ findOut = NoFind
    /\ fileOut = NoReadFile
    /\ HostsIdle
    /\ SearchIdle
    /\ DecodeIdle
    /\ UtilIdle
    /\ FsIdle
    /\ ReaderIdle

\* BackupPC::read_file(path).  The record keeps what list gives for the
\* parent at the time of the call.
ReadFile(path, perm) ==
    LET res == read_file(cache, CacheCapacity, disk, pfs, TopDir, path, perm)
        parent == list(cache, CacheCapacity, disk, SubSeq(path, 1, Len(path) - 1), perm)
    IN /\ fileOut' = [called |-> TRUE, path |-> path,
                      listed |-> IF path # <<>> /\ parent.ok THEN Ok(parent.files)
                                 ELSE Err,
                      res |-> [res EXCEPT !.cache = <<>>]]
       /\ cache' = res.cache
       /\ UNCHANGED <<disk, mergeOut, listOut, pfs, findOut>>
       /\ UNCHANGED hostsVars
       /\ UNCHANGED searchVars
       /\ UNCHANGED decodeVars
       /\ UNCHANGED utilVars
       /\ UNCHANGED fsVars
       /\ UNCHANGED readerVars

ReadFileNext ==
    \E path \in ReadPaths :
        \E perm \in Orders({f.name : f \in Range(disk.shares.files)}) :
            ReadFile(path, perm)

SpecReadFile == ReadFileInit /\ [][ReadFileNext]_vars

(***************************************************************************)
(* Specification of the parser of the backups file                         *)
(***************************************************************************)
BackupsInit ==
    /\ manifestFile \in ManifestFiles
    /\ backupsOut = NoBackups
    /\ PoolIdle
    /\ fileOut = NoReadFile
    /\ SearchIdle
    /\ DecodeIdle
    /\ UtilIdle
    /\ FsIdle
    /\ ReaderIdle
    /\ ViewIdle

\* Hosts::list_backups(topdir, hostname)
ListBackups ==
    /\ ~backupsOut.called
    /\ backupsOut' = [called |-> TRUE, res |-> HostsListBackups(manifestFile)]
    /\ UNCHANGED <<manifestFile, poolVars, fileOut>>
    /\ UNCHANGED searchVars
    /\ UNCHANGED decodeVars
    /\ UNCHANGED utilVars
    /\ UNCHANGED fsVars
    /\ UNCHANGED readerVars
    /\ UNCHANGED viewVars

BackupsNext == ListBackups

SpecBackups == BackupsInit /\ [][BackupsNext]_vars

(***************************************************************************)
(* Specification of the attribute locator                                  *)
(***************************************************************************)
SearchInit ==
    /\ tree \in Trees
    /\ pfs \in SearchStores
    /\ attrOut = NoAttrib
    /\ findOut = NoFind
    /\ fileOut = NoReadFile
    /\ HostsIdle
    /\ DecodeIdle
    /\ UtilIdle
    /\ FsIdle
    /\ ReaderIdle
    /\ ViewIdle

\* Search::list_file_from_dir(hostname, backup_number, share, filename)
SearchFromDir(hostname, backup_number, share, filename) ==
    /\ attrOut' = [called |-> TRUE,
                   backup_dir |-> BackupDir(TopDir, hostname, backup_number,
                                     MangledPath([share EXCEPT !.v = mangle_filename(share.v)],
                                                 [filename EXCEPT !.v = mangle(filename.v)])),
                   res |-> search_list_file_from_dir(tree, pfs, TopDir, hostname,
                                                     backup_number, share, filename)]
    /\ UNCHANGED <<tree, pfs, findOut, fileOut>>
    /\ UNCHANGED hostsVars
    /\ UNCHANGED decodeVars
    /\ UNCHANGED utilVars
    /\ UNCHANGED fsVars
    /\ UNCHANGED readerVars
    /\ UNCHANGED viewVars

\* Search::list_attributes(hostname, backup_number, attrib_path, attrib_file)
SearchAttributes(hostname, backup_number, attrib_path, attrib_file) ==
    /\ attrOut' = [called |-> TRUE,
                   backup_dir |-> BackupDir(TopDir, hostname, backup_number, attrib_path),
                   res |-> search_list_attributes(tree, pfs, TopDir, hostname, backup_number,
                                                  attrib_path, attrib_file)]
    /\ UNCHANGED <<tree, pfs, findOut, fileOut>>
    /\ UNCHANGED hostsVars
    /\ UNCHANGED decodeVars
    /\ UNCHANGED utilVars
    /\ UNCHANGED fsVars
    /\ UNCHANGED readerVars
    /\ UNCHANGED viewVars

SearchNext ==
    \/ \E hostname \in {HostH, HostG} : \E backup_number \in 1..2 :
          \E share \in {NoneStr, SomeStr(ShareS)} :
             \E filename \in {NoneStr, SomeStr(NameD), SomeStr(NameE)} :
                SearchFromDir(hostname, backup_number, share, filename)
    \/ \E hostname \in {HostH, HostG} : \E attrib_file \in {StrAttrib \o <<Underscore>>, StrAttribAb} :
          SearchAttributes(hostname, 1, <<LetterF, 115, Slash, LetterF, 100>>, attrib_file)

SpecSearch == SearchInit /\ [][SearchNext]_vars

(***************************************************************************)
(* Specification of the listing of hosts and of their backups              *)
(***************************************************************************)
HostListInit ==
    /\ disk \in HostDisks
    /\ cache = <<>>
    /\ mergeOut = NoMerge
    /\ listOut = NoList
    /\ DecodeIdle
    /\ UtilIdle
    /\ ReaderIdle
    /\ ExtIdle

HostListNext == \E path \in HostPaths : List(path, <<>>)

SpecHostList == HostListInit /\ [][HostListNext]_vars
(***************************************************************************)
(* Specification of the adapter's directory requests                       *)
(***************************************************************************)
FsDirInit ==
    /\ fsEnv \in DirEnvs
    /\ bpcfs = FsNew
    /\ dirOut = NoDir
    /\ session = NoSession
    /\ exposed = {}
    /\ readOut = NoFsRead
    /\ PoolIdle
    /\ fileOut = NoReadFile
    /\ HostsIdle
    /\ SearchIdle
    /\ DecodeIdle
    /\ UtilIdle
    /\ ReaderIdle
    /\ ViewIdle

\* The path of the directory a request names.
DirPath(st, ino) == IF ino = RootIno \/ ino \notin DOMAIN st.inodes THEN <<>> ELSE st.inodes[ino].path

ParentPath(path) == IF path = <<>> THEN <<>> ELSE SubSeq(path, 1, Len(path) - 1)

\* The (inode, path) pair an entry of a reply gives out.
ExposedBy(st, ino, e) ==
    IF e.name = StrDot THEN [ino |-> e.ino, path |-> DirPath(st, ino)]
    ELSE IF e.name = StrDotDot THEN [ino |-> e.ino, path |-> ParentPath(DirPath(st, ino))]
    ELSE [ino |-> e.ino, path |-> Append(DirPath(st, ino), e.name)]

ExposedByReply(st, ino, reply) == {ExposedBy(st, ino, reply[i]) : i \in 1..Len(reply)}

Crashed(st, status) == [st EXCEPT !.crashed = (status \in {"panic", "endless"})]

Replied(ino, offset, room, f) ==
    /\ bpcfs' = Crashed(f.st, f.status)
    /\ dirOut' = [called |-> TRUE, op |-> "readdir", ino |-> ino, offset |-> offset,
                  room |-> room, status |-> f.status, reply |-> f.reply]

\* Filesystem::readdir at offset 0: the kernel starts to read a directory.
ReaddirStart(ino, room) ==
    /\ ~bpcfs.crashed
    /\ ~session.active \/ session.done
    /\ LET f == fill_reply_from_files(bpcfs, fsEnv, ino, 0, room)
       IN /\ Replied(ino, 0, room, f)
          /\ session' = [active |-> f.status = "Ok", ino |-> ino, got |-> f.reply,
                         done |-> f.reply = <<>>]
    /\ UNCHANGED <<fsEnv, exposed, readOut>>
    /\ UNCHANGED <<poolVars, fileOut, hostsVars, searchVars>>
    /\ UNCHANGED decodeVars
    /\ UNCHANGED utilVars
    /\ UNCHANGED readerVars
    /\ UNCHANGED viewVars

\* Filesystem::readdir from the offset of the last entry the kernel received.
ReaddirResume(room) ==
    /\ ~bpcfs.crashed
    /\ session.active
    /\ ~session.done
    /\ LET offset == session.got[Len(session.got)].offset
           f == fill_reply_from_files(bpcfs, fsEnv, session.ino, offset, room)
       IN /\ Replied(session.ino, offset, room, f)
          /\ session' = [session EXCEPT !.active = (f.status = "Ok"),
                                        !.got = session.got \o f.reply,
                                        !.done = (f.reply = <<>>)]
    /\ UNCHANGED <<fsEnv, exposed, readOut>>
    /\ UNCHANGED <<poolVars, fileOut, hostsVars, searchVars>>
    /\ UNCHANGED decodeVars
    /\ UNCHANGED utilVars
    /\ UNCHANGED readerVars
    /\ UNCHANGED viewVars

\* Filesystem::lookup, between two requests of the sequence.
Lookup(parent, name) ==
    /\ ~bpcfs.crashed
    /\ LET a == get_file_attr(bpcfs, fsEnv, parent, name)
       IN /\ bpcfs' = Crashed(a.st, a.status)
          /\ dirOut' = [called |-> TRUE, op |-> "lookup", ino |-> parent, offset |-> 0,
                        room |-> 0, status |-> a.status, ttl |-> a.ttl,
                        reply |-> IF a.attr.some
                                  THEN <<[ino |-> a.attr.ino, offset |-> 0,
                                          kind |-> a.attr.kind, name |-> name]>>
                                  ELSE <<>>]
    /\ UNCHANGED <<fsEnv, session, exposed, readOut>>
    /\ UNCHANGED <<poolVars, fileOut, hostsVars, searchVars>>
    /\ UNCHANGED decodeVars
    /\ UNCHANGED utilVars
    /\ UNCHANGED readerVars
    /\ UNCHANGED viewVars

\* The inodes the kernel asks about: the root, those the adapter knows, and
\* one it may not know.
KnownInos == {RootIno, HashSpace - 2} \cup DOMAIN bpcfs.inodes

FsDirNext ==
    \/ \E ino \in KnownInos : \E room \in 1..MaxReplyRoom : ReaddirStart(ino, room)
    \/ \E room \in 1..MaxReplyRoom : ReaddirResume(room)
    \/ \E parent \in KnownInos : \E name \in FsNames : Lookup(parent, name)

SpecFsDir == FsDirInit /\ [][FsDirNext]_vars

(***************************************************************************)
(* Specification of the inodes the adapter gives out                       *)
(***************************************************************************)
\* Filesystem::readdir, at any offset: the inodes its reply gives out.
Readdir(ino, offset, room) ==
    /\ ~bpcfs.crashed
    /\ LET f == fill_reply_from_files(bpcfs, fsEnv, ino, offset, room)
       IN /\ bpcfs' = Crashed(f.st, f.status)
          /\ exposed' = exposed \cup ExposedByReply(f.st, ino, f.reply)
    /\ UNCHANGED <<fsEnv, dirOut, session, readOut>>
    /\ UNCHANGED <<poolVars, fileOut, hostsVars, searchVars>>
    /\ UNCHANGED decodeVars
    /\ UNCHANGED utilVars
    /\ UNCHANGED readerVars
    /\ UNCHANGED viewVars

\* Filesystem::lookup: the inode its reply gives out.
LookupIno(parent, name) ==
    /\ ~bpcfs.crashed
    /\ LET a == get_file_attr(bpcfs, fsEnv, parent, name)
       IN /\ bpcfs' = Crashed(a.st, a.status)
          /\ exposed' = exposed \cup
                IF a.attr.some
                THEN {[ino |-> a.attr.ino, path |-> Append(DirPath(a.st, parent), name)]}
                ELSE {}
    /\ UNCHANGED <<fsEnv, dirOut, session, readOut>>
    /\ UNCHANGED <<poolVars, fileOut, hostsVars, searchVars>>
    /\ UNCHANGED decodeVars
    /\ UNCHANGED utilVars
    /\ UNCHANGED readerVars
    /\ UNCHANGED viewVars

FsInodesNext ==
    \/ \E ino \in KnownInos : \E offset \in {0, 2} : Readdir(ino, offset, MaxReplyRoom)
    \/ \E parent \in KnownInos : \E name \in FsNames : LookupIno(parent, name)

SpecFsInodes == FsDirInit /\ [][FsInodesNext]_vars

(***************************************************************************)
(* Specification of the attributes the adapter reports                     *)
(***************************************************************************)
\* Filesystem::getattr
Getattr(ino) ==
    /\ ~bpcfs.crashed
    /\ LET a == get_attr(bpcfs, fsEnv, ino)
       IN /\ bpcfs' = Crashed(a.st, a.status)
          /\ dirOut' = [called |-> TRUE, op |-> "getattr", ino |-> ino, offset |-> 0,
                        room |-> 0, status |-> a.status, ttl |-> a.ttl,
                        reply |-> IF a.attr.some
                                  THEN <<[ino |-> a.attr.ino, offset |-> 0,
                                          kind |-> a.attr.kind, name |-> <<>>]>>
                                  ELSE <<>>]
    /\ UNCHANGED <<fsEnv, session, exposed, readOut>>
    /\ UNCHANGED <<poolVars, fileOut, hostsVars, searchVars>>
    /\ UNCHANGED decodeVars
    /\ UNCHANGED utilVars
    /\ UNCHANGED readerVars
    /\ UNCHANGED viewVars

FsAttrNext ==
    \/ \E ino \in KnownInos : Readdir(ino, 0, MaxReplyRoom)
    \/ \E parent \in KnownInos : \E name \in FsNames : Lookup(parent, name)
    \/ \E ino \in KnownInos : Getattr(ino)

SpecFsAttr == FsDirInit /\ [][FsAttrNext]_vars
(***************************************************************************)
(* Specification of the adapter's open, read and release requests          *)
(***************************************************************************)
FsReadInit ==
    /\ fsEnv \in ReadEnvs
    /\ bpcfs = FsNew
    /\ dirOut = NoDir
    /\ session = NoSession
    /\ exposed = {}
    /\ readOut = NoFsRead
    /\ PoolIdle
    /\ fileOut = NoReadFile
    /\ HostsIdle
    /\ SearchIdle
    /\ DecodeIdle
    /\ UtilIdle
    /\ ReaderIdle
    /\ ViewIdle

ReadUnchanged ==
    /\ UNCHANGED <<fsEnv, dirOut, session, exposed>>
    /\ UNCHANGED <<poolVars, fileOut, hostsVars, searchVars>>
    /\ UNCHANGED decodeVars
    /\ UNCHANGED utilVars
    /\ UNCHANGED readerVars
    /\ UNCHANGED viewVars

\* Filesystem::open
Open(ino, first, unused) ==
    /\ ~bpcfs.crashed
    /\ LET o == open(bpcfs, fsEnv, ino, first, unused)
       IN /\ bpcfs' = o.st
          /\ readOut' = [called |-> TRUE, op |-> "open", ino |-> ino, fh |-> o.fh, offset |-> 0,
                         size |-> 0, status |-> o.status, data |-> <<>>,
                         before |-> bpcfs.opened]
    /\ ReadUnchanged

\* Filesystem::read
Read(ino, fh, offset, size) ==
    /\ ~bpcfs.crashed
    /\ LET res == read_ino(bpcfs, fsEnv, ino, fh, offset, size)
       IN /\ bpcfs' = res.st
          /\ readOut' = [called |-> TRUE, op |-> "read", ino |-> ino, fh |-> fh, offset |-> offset,
                         size |-> size, status |-> res.status, data |-> res.data,
                         before |-> <<>>]
    /\ ReadUnchanged

\* Filesystem::release
Release(fh) ==
    /\ ~bpcfs.crashed
    /\ bpcfs' = release(bpcfs, fh)
    /\ readOut' = [called |-> TRUE, op |-> "release", ino |-> 0, fh |-> fh, offset |-> 0,
                   size |-> 0, status |-> "Ok", data |-> <<>>, before |-> <<>>]
    /\ ReadUnchanged

Handles == 1..MaxHandles

\* The inode the kernel names with a handle: the one it opened.
InoOfHandle(fh) ==
    {i \in DOMAIN bpcfs.inodes : bpcfs.inodes[i].path = bpcfs.opened[fh].reader.path}

\* One file is open at a time, and read at every offset and size.
FsReadNext ==
    \/ \E ino \in KnownInos : Readdir(ino, 0, MaxReplyRoom + 1)
    \/ /\ DOMAIN bpcfs.opened = {}
       /\ \E ino \in KnownInos : \E first \in Handles : Open(ino, first, first)
    \/ \E fh \in DOMAIN bpcfs.opened : \E ino \in InoOfHandle(fh) :
         \E offset \in 0..MaxOffset : \E size \in 1..MaxReadSize : Read(ino, fh, offset, size)
    \/ \E fh \in DOMAIN bpcfs.opened : Release(fh)

SpecFsRead == FsReadInit /\ [][FsReadNext]_vars

\* Several files are open, and read here and there.
FsOpenNext ==
    \/ \E ino \in KnownInos : Readdir(ino, 0, MaxReplyRoom + 1)
    \/ \E ino \in KnownInos : \E first \in Handles :
         \E unused \in Handles \ DOMAIN bpcfs.opened : Open(ino, first, unused)
    \/ \E fh \in DOMAIN bpcfs.opened : \E ino \in InoOfHandle(fh) :
         Read(ino, fh, 1, 2)
    \/ Read(HashSpace - 2, MaxHandles + 1, 1, 2)
    \/ \E fh \in DOMAIN bpcfs.opened : Release(fh)

SpecFsOpen == FsReadInit /\ [][FsOpenNext]_vars
(***************************************************************************)
(* Claims on the attribute decoder                                         *)
(***************************************************************************)
AttrDone == attrResult # NotRead

\* C6 (as stated): when the decoding of a record fails, read_from stops
\* there and returns exactly the records completely decoded before the
\* failure: nothing after the failure point, nothing built from a partially
\* read or defaulted field.
C6_StopsAtFailure ==
    (AttrDone /\ attrInput.tail.kind # "none")
        => (attrResult.status = "Ok" /\ attrResult.attributes = attrInput.recs)

\* C7: the magic followed by n >= 0 well-formed records decodes to exactly
\* those records, in order, every field equal to the encoded value; the one
\* record {name "f", type 5} decodes to a single Dir record named "f".
C7_WellFormedDecodes ==
    (AttrDone /\ attrInput.header = MagicBytes /\ attrInput.tail.kind = "none")
        => /\ attrResult.status = "Ok"
           /\ attrResult.attributes = attrInput.recs
           /\ (AttrStream(attrInput) = MagicBytes \o <<1, 102, 0, 5, 1, 237, 3, 0, 0, 0, 0, 0, 0, 0>>)
                 => /\ Len(attrResult.attributes) = 1
                    /\ attrResult.attributes[1].type_ = "Dir"
                    /\ attrResult.attributes[1].name = <<102>>

C7_Witness ==
    /\ AttrDone
    /\ attrInput.header = MagicBytes /\ attrInput.tail.kind = "none"
    /\ Len(attrInput.recs) = 2
    /\ attrInput.recs[1] = ScenarioRecord
    /\ attrInput.recs[2].xattrs # <<>>
    /\ attrInput.recs[2].inode > 16383
    /\ attrResult.attributes = attrInput.recs

IsPrefix(a, b) == Len(a) <= Len(b) /\ SubSeq(b, 1, Len(a)) = a

ReadMade == lastRead.n > 0

\* C4: for a pool file of k >= 1 frames, the bytes returned by successive
\* reads, for any buffer sizes, are the concatenation of the frame payloads
\* in order; a read returns fewer bytes than its buffer holds only when the
\* end of the stream is reached (so a read spanning a frame boundary holds
\* bytes of both frames).
C4_SeamlessStream ==
    (Len(pool.frames) >= 1 /\ pool.tail = <<>>)
        => /\ ~lastRead.err
           /\ IsPrefix(delivered, PoolPayload(pool))
           /\ (ReadMade /\ lastRead.count < lastRead.n)
                 => delivered = PoolPayload(pool)

C4_Witness ==
    /\ Len(pool.frames) = 2 /\ pool.tail = <<>>
    /\ lastRead.n = 3 /\ lastRead.count = 3
    /\ lastRead.before < Len(pool.frames[1].payload)
    /\ lastRead.before + lastRead.count > Len(pool.frames[1].payload)
    /\ pool.frames[1].payload # <<>>

\* C5: when the first byte of a frame is 0xb3 the reader delivers the
\* payloads of the frames before it and then returns 0 bytes without an
\* error, whatever follows the 0xb3; once a read has returned 0, every
\* later read returns 0.
C5_EndByteTerminates ==
    /\ (pool.tail # <<>>)
          => /\ ~lastRead.err
             /\ IsPrefix(delivered, PoolPayload(pool))
             /\ (ReadMade /\ lastRead.count < lastRead.n)
                   => delivered = PoolPayload(pool)
    /\ lastRead.afterZero => (lastRead.count = 0 /\ ~lastRead.err)

C5_Witness ==
    /\ pool.tail = <<179, 120, 7, 0>>
    /\ Len(pool.frames) = 2
    /\ delivered = PoolPayload(pool) /\ delivered # <<>>
    /\ lastRead.afterZero /\ lastRead.count = 0 /\ lastRead.n = 3

(***************************************************************************)
(* Claims on the merge / fill engine                                       *)
(***************************************************************************)
MergeDone == mergeOut.n # 0 /\ mergeOut.ok

\* The records the call met, in the order it met them: the listings of the
\* backups of the chain, one after the other.
ChainRecords ==
    Flatten([i \in 1..Len(mergeOut.chain) |-> disk.dirs[mergeOut.chain[i].num].files])

\* The last record carrying a name.
LastIndex(name) ==
    LET idx == {i \in 1..Len(ChainRecords) : ChainRecords[i].name = name}
    IN CHOOSE i \in idx : \A j \in idx : j <= i

Carried(name) == \E i \in 1..Len(ChainRecords) : ChainRecords[i].name = name

SameButDigest(f, r) == [f EXCEPT !.bpc_digest = r.bpc_digest] = r

\* C1: the merged listing holds a name exactly when the last record that
\* carries it along the chain is not Deleted, and then it holds that last
\* record, once: every field the merge does not rewrite is the field of
\* the last record, and a record without hard links is the last record
\* unchanged (the digest of a hard-linked record is looked up, see C3).
C1_LastRecordWins ==
    MergeDone =>
        \A name \in {NameA, NameB, NameC} :
            LET held == {f \in mergeOut.files : f.name = name}
            IN IF Carried(name) /\ ChainRecords[LastIndex(name)].type_ # "Deleted"
               THEN LET last == ChainRecords[LastIndex(name)]
                    IN /\ Cardinality(held) = 1
                       /\ \A f \in held : /\ SameButDigest(f, last)
                                          /\ last.nlinks = 0 => f = last
               ELSE held = {}

\* A chain of two backups or more where a record of an older backup is
\* still visible, a record of the requested backup is visible, and a name
\* of the first backup has been cancelled.
C1_Witness ==
    /\ MergeDone
    /\ Len(mergeOut.chain) >= 2
    /\ \E f, g \in mergeOut.files : f.mtime < mergeOut.n /\ g.mtime = mergeOut.n
    /\ \E i \in 1..Len(ChainRecords) :
          /\ ChainRecords[i].type_ # "Deleted"
          /\ ChainRecords[i].mtime = mergeOut.chain[1].num
          /\ \A f \in mergeOut.files : f.name # ChainRecords[i].name

TableDigestFor(r, b) ==
    LET table == SearchListAttributes(disk, HostH, b, InodeAttribPath(r.inode),
                                      InodeAttribFile(r.inode))
        hits == {i \in 1..Len(table.files) : table.files[i].name = InodeStr(r.inode)}
    IN IF hits = {} THEN r.bpc_digest
       ELSE table.files[CHOOSE i \in hits : TRUE].bpc_digest

\* C3: a merged record that comes from a record with nlinks > 0 of backup
\* b carries the digest of its inode's entry in the per-inode table of
\* that same backup b, or its own digest when the table has no such entry,
\* and keeps its other fields; a record with nlinks = 0 is unchanged.
C3_DigestFromSameBackup ==
    MergeDone =>
        \A f \in mergeOut.files :
            LET last == ChainRecords[LastIndex(f.name)]
            IN /\ SameButDigest(f, last)
               /\ f.bpc_digest = IF last.nlinks > 0
                                 THEN TableDigestFor(last, last.mtime)
                                 ELSE last.bpc_digest

(***************************************************************************)
(* Claims on the listing of shares and paths                               *)
(***************************************************************************)
ListDone == listOut.called /\ listOut.ok /\ Len(listOut.path) >= 2

ShareNames == {f.name : f \in Range(disk.shares.files)}

PathInBackup == SubSeq(listOut.path, 3, Len(listOut.path))

\* The shares whose components are a prefix of, or equal to, path[2..].
PrefixShares == {s \in ShareNames : StartsWith(PathInBackup, sanitize_path(s))}

\* C9: the listing of a path under a backup holds what the merge engine
\* gives for the share with the most components among the shares that are
\* a prefix of path[2..], asked for the directory join(path[2+share_size..]).
C9_MostComponentsSelected ==
    (ListDone /\ PrefixShares # {}) =>
        \E s \in PrefixShares :
            /\ \A t \in PrefixShares : Len(sanitize_path(t)) <= Len(sanitize_path(s))
            /\ EchoRecord(SomeStr(s),
                   SomeStr(JoinSlash(SubSeq(PathInBackup, Len(sanitize_path(s)) + 1,
                                            Len(PathInBackup)))))
               \in Range(listOut.files)

\* C10: when no share is a prefix of path[2..], the listing is one Dir
\* entry for each distinct next component of the shares that continue
\* path[2..], and nothing else.
C10_SyntheticDirectories ==
    (ListDone /\ PrefixShares = {}) =>
        LET next == {sanitize_path(s)[Len(PathInBackup) + 1] :
                        s \in {t \in ShareNames :
                                  StartsWith(sanitize_path(t), PathInBackup)}}
        IN /\ Range(listOut.files) = {from_share(c) : c \in next}
           /\ Len(listOut.files) = Cardinality(next)

\* Shares /home, /volume1/test and /volume1/test2 listed at the root of the
\* backup give home and volume1.
C10_Witness ==
    /\ ListDone
    /\ listOut.path = <<HostH, StrOne>>
    /\ Cardinality(ShareNames) = 3
    /\ listOut.files = <<from_share(StrHome), from_share(StrVolume1)>>


(***************************************************************************)
(* Claims on the pool locator                                              *)
(***************************************************************************)
\* <topdir>/<pool or cpool>/<dir>/<name> in the words of the claim.
ClaimedPath(topdir, kind, digest, k) ==
    topdir \o <<Slash>> \o kind \o <<Slash>>
    \o Hex2(2 * (digest[1] \div 2)) \o <<Slash>> \o Hex2(2 * (digest[2] \div 2))
    \o <<Slash>> \o (IF k.some THEN HexMin2(k.v) ELSE <<>>) \o vec_to_hex_string(digest)

\* What the claim requires of find_file_in_backuppc(topdir, digest, k).
ClaimedFind(fs, topdir, digest, k) ==
    IF Len(digest) < 2 THEN FindErr("must be at least 2 bytes long")
    ELSE IF ClaimedPath(topdir, StrPool, digest, k) \in DOMAIN fs
         THEN FindOk(ClaimedPath(topdir, StrPool, digest, k), FALSE)
    ELSE IF ClaimedPath(topdir, StrCpool, digest, k) \in DOMAIN fs
         THEN FindOk(ClaimedPath(topdir, StrCpool, digest, k), TRUE)
    ELSE FindErr("does not exist")

\* C20: find_file_in_backuppc fails with the invalid-digest error on a digest
\* of fewer than 2 bytes; otherwise it returns the file of the pool with
\* is_compressed = false when it exists, else the file of the cpool with
\* is_compressed = true when that exists, else it fails with the not-found
\* error; the file is <topdir>/<pool|cpool>/hex(d0 & 0xFE)/hex(d1 & 0xFE)/
\* hex(k)hex(digest), and the pool wins when both files exist.
C20_PoolLocator ==
    findOut.called =>
        findOut.res = ClaimedFind(pfs, findOut.topdir, findOut.file_hash, findOut.collid)

\* Both files exist, the digest has odd bytes and a collision number, and the
\* call returned the file of the pool.
C20_Witness ==
    /\ findOut.called
    /\ findOut.file_hash = DigestAbCd01
    /\ findOut.collid = SomeCollid(1)
    /\ StoredPath(TRUE, DigestAbCd01, SomeCollid(1)) \in DOMAIN pfs
    /\ StoredPath(FALSE, DigestAbCd01, SomeCollid(1)) \in DOMAIN pfs
    /\ findOut.res = FindOk(StoredPath(FALSE, DigestAbCd01, SomeCollid(1)), FALSE)

(***************************************************************************)
(* Claims on read_file                                                     *)
(***************************************************************************)
\* A read_file call on a path with a last component whose parent was listed.
FileRead == fileOut.called /\ fileOut.path # <<>> /\ fileOut.listed.ok

\* The records of the parent listing named by the last component.
NamedRecords ==
    {f \in Range(fileOut.listed.files) : f.name = fileOut.path[Len(fileOut.path)]}

\* What the claim requires for the record f.
ClaimedStream(f) ==
    IF Len(f.bpc_digest.digest) <= 2 \/ f.bpc_digest.digest = EMPTY_MD5_DIGEST
    THEN ReadFileOk(StreamEmpty, <<>>)
    ELSE IF StoredPath(FALSE, f.bpc_digest.digest, NoCollid) \in DOMAIN pfs
    THEN ReadFileOk(StreamBuf(StoredPath(FALSE, f.bpc_digest.digest, NoCollid)), <<>>)
    ELSE IF StoredPath(TRUE, f.bpc_digest.digest, NoCollid) \in DOMAIN pfs
    THEN ReadFileOk(StreamBpc(StoredPath(TRUE, f.bpc_digest.digest, NoCollid)), <<>>)
    ELSE ReadFileErr("NotFound", <<>>)

\* C11: read_file(path) lists the parent of path and takes the record named
\* by the last component: it returns an empty stream, whatever the pool
\* holds, when the digest of the record has 2 bytes or fewer or is the MD5 of
\* the empty input; otherwise it returns the file the pool locator finds for
\* the digest, inside the decompressor exactly when the file is in the cpool;
\* it fails with NotFound when the listing has no record of that name or the
\* pool has no file for the digest.
C11_ReadFile ==
    FileRead =>
        /\ NamedRecords = {} => fileOut.res = ReadFileErr("NotFound", <<>>)
        /\ \A f \in NamedRecords : fileOut.res = ClaimedStream(f)

\* The file "a" was read while only the cpool holds its digest: the stream is
\* the decompressor over the cpool file.
C11_Witness ==
    /\ FileRead
    /\ fileOut.path = ReadDir \o <<NameA>>
    /\ StoredPath(FALSE, DigestAbCd01, NoCollid) \notin DOMAIN pfs
    /\ StoredPath(TRUE, DigestAbCd01, NoCollid) \in DOMAIN pfs
    /\ fileOut.res.ok
    /\ fileOut.res.stream = StreamBpc(StoredPath(TRUE, DigestAbCd01, NoCollid))

(***************************************************************************)
(* Claims on the parser of the backups file                                *)
(***************************************************************************)
BackupsListed == backupsOut.called /\ manifestFile.exists

IsNumber(s) == s # <<>> /\ \A i \in 1..Len(s) : s[i] \in 48..57

IsSigned(s) ==
    /\ s # <<>>
    /\ IsNumber(s) \/ (s[1] \in {43, 45} /\ IsNumber(SubSeq(s, 2, Len(s))))

\* The record of a line has the number of its first field, 0 when the field
\* is no number, and likewise for no_fill; fill_from_num is -1 when its
\* field is no number.
RecordOfLine(backup, fields) ==
    /\ backup.num = (IF IsNumber(fields[1]) THEN DigitsValue(fields[1], 0) ELSE 0)
    /\ Len(fields) >= 18 =>
          backup.no_fill = (IF IsNumber(fields[18]) THEN DigitsValue(fields[18], 0) ELSE 0)
    /\ (Len(fields) >= 19 /\ ~IsSigned(fields[19])) => backup.fill_from_num = -1

\* C19: list_backups returns one backup record per line of the backups file,
\* in the order of the file, whatever the lines hold: a numeric field that
\* does not parse gives 0 (-1 for fill_from_num), and no line, with missing or
\* additional fields, is dropped or makes the call fail or abort.
C19_OneRecordPerLine ==
    BackupsListed =>
        /\ backupsOut.res.status = "Ok"
        /\ Len(backupsOut.res.backups) = Len(Lines(manifestFile.text))
        /\ \A i \in 1..Len(backupsOut.res.backups) :
              RecordOfLine(backupsOut.res.backups[i],
                           SplitByte(Lines(manifestFile.text)[i], Tab))

(***************************************************************************)
(* Claims on the attribute locator                                         *)
(***************************************************************************)
\* C18: a call of the attribute locator for a host, a backup or a directory
\* that does not exist on disk fails with NotFound and gives no empty
\* listing; an attribute file whose name ends with the token "0" gives an
\* empty listing without error.
C18_MissingIsNotFound ==
    attrOut.called =>
        /\ DirKey(attrOut.backup_dir) \notin DOMAIN tree =>
              ~attrOut.res.ok /\ attrOut.res.kind = "NotFound"
        /\ (DirKey(attrOut.backup_dir) \in DOMAIN tree
            /\ tree[DirKey(attrOut.backup_dir)] = <<StrAttribZero>>) =>
              attrOut.res = AttribOk(<<>>)

(***************************************************************************)
(* Claims on the listing of a host                                         *)
(***************************************************************************)
HostListed == listOut.called /\ listOut.path = <<HostH>>

\* C17: list([host]) returns one Dir record for every backup of the backups
\* file of the host, named by the number of the backup; when the backups file
\* is missing (NotFound) it returns the empty list without error, and it
\* returns every other error of list_backups to its caller.
C17_HostListing ==
    HostListed =>
        /\ disk.backups_err = "none" =>
              /\ listOut.ok
              /\ Len(listOut.files) = Len(disk.manifest)
              /\ \A b \in Range(disk.manifest) :
                    \E f \in Range(listOut.files) :
                        f.name = ToDecimal(b.num) /\ f.type_ = "Dir"
        /\ disk.backups_err = "NotFound" => listOut.ok /\ listOut.files = <<>>
        /\ disk.backups_err \notin {"none", "NotFound"} => ~listOut.ok

\* The backups file of the host is missing and the listing is empty.
C17_Witness ==
    /\ HostListed
    /\ disk.backups_err = "NotFound"
    /\ listOut.ok
    /\ listOut.files = <<>>
(***************************************************************************)
(* Claims on the adapter's directory requests                              *)
(***************************************************************************)
\* The listing the adapter sorts for the directory of the running sequence.
RECURSIVE ShownFiles(_)
ShownFiles(files) ==
    IF files = <<>> THEN <<>>
    ELSE IF Head(files).type_ \in {"Unknown", "Deleted"} THEN ShownFiles(Tail(files))
    ELSE <<Head(files)>> \o ShownFiles(Tail(files))

SessionListing == SortByName(ShownFiles(ViewList(fsEnv, DirPath(bpcfs, session.ino)).files))

SessionNames == <<StrDot, StrDotDot>> \o [i \in 1..Len(SessionListing) |-> SessionListing[i].name]

ReceivedNames == [i \in 1..Len(session.got) |-> session.got[i].name]

NonRootSession == session.active /\ session.ino # RootIno /\ session.ino \in DOMAIN bpcfs.inodes

\* C13: a readdir sequence on a directory other than the root, started at
\* offset 0 and resumed from the offset of the last entry received, never
\* receives two entries with the same offset, and once it has ended it has
\* received ".", ".." and every entry of the sorted listing exactly once,
\* whatever room the reply buffers had.
C13_ReaddirSequence ==
    NonRootSession =>
        /\ \A i, j \in 1..Len(session.got) :
              i # j => session.got[i].offset # session.got[j].offset
        /\ session.done => ReceivedNames = SessionNames
(***************************************************************************)
(* Claims on the inodes of the adapter                                     *)
(***************************************************************************)
RECURSIVE SumSquares(_)
SumSquares(n) == IF n = 0 THEN 0 ELSE n * n + SumSquares(n - 1)

\* The slots the probing visits from hash h: h, h + 1, h + 1 + 4, ...
ProbeSlots(h) == {(h + SumSquares(n)) % HashSpace : n \in 0..(4 * HashSpace)}

\* C14: every allocation of an inode ends, and the inode map holds every
\* path under a number that the probing by successive squares reaches from
\* the hash of the '/'-joined path.
C14_InodeAllocation ==
    /\ ~bpcfs.crashed
    /\ \A i \in DOMAIN bpcfs.inodes :
          i \in ProbeSlots(fsEnv.hash[JoinSlash(bpcfs.inodes[i].path)])

\* C15: the inodes given out by lookup and readdir are stable: a path has
\* been given one inode number only, and an inode number has been given to
\* one path only, the root included.
C15_StableInodes ==
    \A e1, e2 \in exposed :
        /\ e1.path = e2.path => e1.ino = e2.ino
        /\ e1.ino = e2.ino => e1.path = e2.path
(***************************************************************************)
(* Claims on the adapter's open, read and release requests                 *)
(***************************************************************************)
ReadAnswered == readOut.op = "read" /\ readOut.fh \in DOMAIN bpcfs.opened

\* The content of the file behind the handle of the last request.
ReadContent == Content(fsEnv.files[bpcfs.opened[readOut.fh].reader.path])

\* C12: a read on an open handle, whatever the reads before it, returns the
\* bytes of the file from the offset of the request up to offset + size or
\* to the end of the file, and leaves the handle at the offset of the
\* request plus the number of bytes returned.
C12_ReadIno ==
    ReadAnswered =>
        /\ readOut.status = "Ok"
        /\ readOut.data = SubSeq(ReadContent, readOut.offset + 1,
                                 Min(readOut.offset + readOut.size, Len(ReadContent)))
        /\ bpcfs.opened[readOut.fh].offset = readOut.offset + Len(readOut.data)

\* C16: an open whose reader cannot be created reports an error and leaves
\* the map of the open handles as it was; an open whose reader can be created
\* adds one entry, under a handle the map did not hold, with offset 0 and a
\* new reader of the file, and leaves the other handles as they were.
C16_OpenInsertsLast ==
    readOut.op = "open" =>
        IF create_reader(bpcfs, fsEnv, readOut.ino).status # "Ok"
        THEN readOut.status = "Err" /\ bpcfs.opened = readOut.before
        ELSE /\ readOut.status = "Ok"
             /\ readOut.fh \notin DOMAIN readOut.before
             /\ DOMAIN bpcfs.opened = DOMAIN readOut.before \cup {readOut.fh}
             /\ bpcfs.opened[readOut.fh]
                  = OpenedFile(0, create_reader(bpcfs, fsEnv, readOut.ino).reader)
             /\ \A h \in DOMAIN readOut.before : bpcfs.opened[h] = readOut.before[h]

\* An open has succeeded while another handle was open and read from.
C16_Witness ==
    /\ readOut.op = "open"
    /\ readOut.status = "Ok"
    /\ \E h \in DOMAIN readOut.before : readOut.before[h].offset > 0
(***************************************************************************)
(* Specification of the decoder on records with digests of every length    *)
(***************************************************************************)
MaxDigestRecords == 2

DigestOfLen(n) == [i \in 1..n |-> (7 * i) % 256]

\* Digests of no byte, of 1 byte, of 2, 16 and 64 bytes, and of 65 bytes.
DigestLengths == {0, 1, 2, 16, 64, 65}

DigestRecords ==
    { MakeRecord(name, "File", 1, DigestOfLen(n), <<>>) :
        name \in {<<97>>, <<98, 99>>}, n \in DigestLengths }

DigestInputs ==
    {[header |-> MagicBytes, recs |-> rs, tail |-> NoDamage] :
        rs \in SeqsUpTo(DigestRecords, MaxDigestRecords)}

DigestInit ==
    /\ attrInput \in DigestInputs
    /\ attrResult = NotRead
    /\ ReaderIdle
    /\ ViewIdle
    /\ ExtIdle

DigestNext == AttributeRead

SpecDigest == DigestInit /\ [][DigestNext]_vars

\* C21 (as stated): every record the decoder returns has a digest of no
\* byte or of 2 to 64 bytes; a record encoded with a digest length of 1 or
\* of more than 64 is not returned with a digest of that length.
C21_DigestLength ==
    AttrDone =>
        \A i \in 1..Len(attrResult.attributes) :
            Len(attrResult.attributes[i].bpc_digest.digest) \in {0} \cup (2..64)
(***************************************************************************)
(* Specification of read_varint on its own                                 *)
(***************************************************************************)
MaxVarintBytes == 11

\* n bytes c, each with the top bit set.
Fill(n, c) == [i \in 1..n |-> c]

VarintLasts == {0, 1, 2, 3, 4, 7, 8, 15, 16, 127}

\* n continuation bytes (0x80 or 0xff), a last byte, and the bytes that
\* follow the varint in the stream; the streams that end inside a varint.
VarintStreams ==
    { Fill(n, c) \o <<last>> \o rest :
        n \in 0..(MaxVarintBytes - 1), c \in {128, 255}, last \in VarintLasts,
        rest \in {<<>>, <<5>>} }
    \cup { Fill(n, 128) : n \in 0..MaxVarintBytes }

VarintWidths == {U16, U32, U64, Usize}

VarintInit ==
    /\ call \in {[fn |-> "read_varint", bytes |-> s, bits |-> w] :
                    s \in VarintStreams, w \in VarintWidths}
    /\ ret = NoRet
    /\ PoolIdle
    /\ fileOut = NoReadFile
    /\ HostsIdle
    /\ SearchIdle
    /\ FsIdle
    /\ DecodeIdle
    /\ ReaderIdle
    /\ ViewIdle

VarintCall ==
    /\ call.fn = "read_varint"
    /\ ~ret.done
    /\ ret' = [done |-> TRUE, res |-> ReadVarint(call.bytes, 0, call.bits)]
    /\ UNCHANGED call
    /\ UNCHANGED <<poolVars, fileOut, hostsVars, searchVars, fsVars>>
    /\ UNCHANGED decodeVars
    /\ UNCHANGED readerVars
    /\ UNCHANGED viewVars

VarintNext == VarintCall

SpecVarint == VarintInit /\ [][VarintNext]_vars

\* The first byte with the top bit clear, 0 when the stream has none.
FirstClear(s) ==
    IF \E i \in 1..Len(s) : s[i] < 128
    THEN CHOOSE i \in 1..Len(s) : s[i] < 128 /\ \A j \in 1..(i - 1) : s[j] >= 128
    ELSE 0

\* Byte i comes at a shift of 64 or more, or its 7-bit group does not fit
\* under bit 64 when shifted.
GroupLost(s, i) ==
    \/ 7 * (i - 1) >= 64
    \/ /\ 64 - 7 * (i - 1) < 7
       /\ s[i] % 128 >= 2^(64 - 7 * (i - 1))

\* The varint is read up to byte n; a byte up to there is lost.
ClaimedCorrupt(s, n) == \E i \in 1..n : GroupLost(s, i)

\* The bits of the sum of (byte_i & 0x7F) * 2^(7 * i) over the bytes 0..n-1.
ClaimedBits(s, n) ==
    {k \in 0..(7 * n - 1) : ((s[(k \div 7) + 1] % 128) \div 2^(k % 7)) % 2 = 1}

RECURSIVE SumOfBits(_)
SumOfBits(bits) ==
    IF bits = {} THEN 0
    ELSE LET k == CHOOSE b \in bits : TRUE IN 2^k + SumOfBits(bits \ {k})

ClaimedValue(bits) ==
    IF \A k \in bits : k < 31 THEN SumOfBits(bits) ELSE [bits |-> bits]

VarintDone == call.fn = "read_varint" /\ ret.done

\* C22: read_varint reads up to and including the first byte with the top
\* bit clear and returns the sum of (byte_i & 0x7F) * 2^(7i) when it fits in
\* 64 bits and in the target width; it fails with the corrupted-data error
\* when a byte comes at a shift of 64 or more or a group loses bits when
\* shifted, and with the target-width error when the 64-bit value does not
\* fit the target; it never returns a truncated or wrapped value.
C22_ReadVarint ==
    VarintDone =>
        LET s == call.bytes
            n == FirstClear(s)
            r == ret.res
        IN /\ ClaimedCorrupt(s, IF n = 0 THEN Len(s) ELSE n)
                => r.kind = "InvalidData" /\ r.msg = MsgCorrupted
           /\ (n > 0 /\ ~ClaimedCorrupt(s, n))
                => IF \A k \in ClaimedBits(s, n) : k < call.bits
                   THEN /\ r.kind = "Ok"
                        /\ r.val = ClaimedValue(ClaimedBits(s, n))
                        /\ r.pos = n
                   ELSE /\ r.kind = "InvalidData" /\ r.msg = MsgTarget
                        /\ r.pos = n
           /\ r.kind = "Ok" => n > 0 /\ r.val = ClaimedValue(ClaimedBits(s, n))

\* A ten-byte varint of value 2^64 - 1 has been read as a u64.
C22_Witness ==
    /\ VarintDone
    /\ call.bytes = Fill(9, 255) \o <<1>>
    /\ call.bits = U64
    /\ ret.res.kind = "Ok"
    /\ ret.res.val = [bits |-> 0..63]
(***************************************************************************)
(* util.rs : unmangle_filename, and the specification of the round trip    *)
(***************************************************************************)
Plus == 43

\* u8::from_str_radix(hex, 16) on the two characters after a '%'; -1 when
\* the unwrap panics.  A leading '+' is accepted by from_str_radix.
EscapeValue(c1, c2) ==
    IF HexValue(c1) >= 0 /\ HexValue(c2) >= 0 THEN 16 * HexValue(c1) + HexValue(c2)
    ELSE IF c1 = Plus /\ HexValue(c2) >= 0 THEN HexValue(c2)
    ELSE -1

\* The while loop of unmangle_filename from character i on; the two
\* chars.next().unwrap() panic at the end of the string.
RECURSIVE UnmangleLoop(_, _, _)
UnmangleLoop(path_m, i, path) ==
    IF i > Len(path_m) THEN [status |-> "Ok", v |-> path]
    ELSE IF path_m[i] # Percent THEN UnmangleLoop(path_m, i + 1, Append(path, path_m[i]))
    ELSE IF i + 2 > Len(path_m) THEN [status |-> "panic", v |-> <<>>]
    ELSE IF EscapeValue(path_m[i + 1], path_m[i + 2]) < 0 THEN [status |-> "panic", v |-> <<>>]
    ELSE UnmangleLoop(path_m, i + 3,
                      Append(path, EscapeValue(path_m[i + 1], path_m[i + 2])))

unmangle_filename(path_m) ==
    IF path_m = <<>> THEN [status |-> "Ok", v |-> <<>>]
    ELSE IF path_m[1] # LetterF THEN [status |-> "Ok", v |-> <<>>]
    ELSE UnmangleLoop(path_m, 2, <<>>)

MaxNameLen == 3

\* The characters of the names: the four that are escaped, letters and
\* digits that read as an escape after a '%', and two characters beyond
\* ASCII.
NameChars == {Percent, Slash, Newline, CarriageReturn, LetterF, 50, Plus, 233, 8364}

MangleNames == UNION {[1..n -> NameChars] : n \in 0..MaxNameLen}

MangleInit ==
    /\ call \in {[fn |-> "mangle_filename", path_um |-> s] : s \in MangleNames}
    /\ ret = NoRet
    /\ PoolIdle
    /\ fileOut = NoReadFile
    /\ HostsIdle
    /\ SearchIdle
    /\ FsIdle
    /\ DecodeIdle
    /\ ReaderIdle
    /\ ViewIdle

HelperUnchanged ==
    /\ UNCHANGED call
    /\ UNCHANGED <<poolVars, fileOut, hostsVars, searchVars, fsVars>>
    /\ UNCHANGED decodeVars
    /\ UNCHANGED readerVars
    /\ UNCHANGED viewVars

\* mangle_filename(path_um)
MangleCall ==
    /\ call.fn = "mangle_filename"
    /\ ~ret.done
    /\ ret' = [done |-> TRUE, unmangled |-> FALSE, path |-> mangle_filename(call.path_um)]
    /\ HelperUnchanged

\* unmangle_filename on what mangle_filename returned
UnmangleCall ==
    /\ call.fn = "mangle_filename"
    /\ ret.done
    /\ ~ret.unmangled
    /\ ret' = [done |-> TRUE, unmangled |-> TRUE, path |-> ret.path,
               back |-> unmangle_filename(ret.path)]
    /\ HelperUnchanged

MangleNext ==
    \/ MangleCall
    \/ UnmangleCall

SpecMangle == MangleInit /\ [][MangleNext]_vars

\* C23: for every non-empty path component s, unmangling the mangled s
\* gives s back, also when s holds '%', '/', newline or carriage return; the
\* mangled s starts with 'f' and holds no '/'.
C23_MangleRoundTrip ==
    (call.fn = "mangle_filename" /\ ret.done /\ call.path_um # <<>>) =>
        /\ ret.path # <<>>
        /\ ret.path[1] = LetterF
        /\ \A i \in 1..Len(ret.path) : ret.path[i] # Slash
        /\ ret.unmangled => ret.back = [status |-> "Ok", v |-> call.path_um]

\* The name "%2/" has been mangled to "f%252%2f" and unmangled again.
C23_Witness ==
    /\ call.fn = "mangle_filename"
    /\ call.path_um = <<Percent, 50, Slash>>
    /\ ret.done
    /\ ret.unmangled
    /\ ret.path = <<LetterF, Percent, 50, 53, 50, Percent, 50, LetterF>>
    /\ ret.back.v = call.path_um
(***************************************************************************)
(* Claims on the LRU cache of the view                                     *)
(***************************************************************************)
\* The cache key of the per-inode table of an inode.
InodeKey(inode) == InodeAttribPath(inode) \o <<Slash>> \o InodeAttribFile(inode)

\* C24 (as stated): on a pool that does not change, a per-inode table the
\* view serves from its cache for a lookup in a backup equals what an
\* uncached read of the table of that same backup returns; a table cached
\* for one backup is not served for a lookup in another backup.
C24_CacheServesUncached ==
    \A b \in 1..MaxBackups :
        \A inode \in ModelInodes :
            CacheHas(cache, InodeKey(inode)) =>
                list_file_from_inode(cache, CacheCapacity, disk, HostH, b, inode).files
                    = list_file_from_inode(<<>>, CacheCapacity, disk, HostH, b, inode).files
(***************************************************************************)
(* Specification of AttributeFile::read_from, one iteration of its loop    *)
(* per step, over readers that end with EOF or with an error that stays    *)
(***************************************************************************)
\* How the reader answers once its bytes are used up: with no byte (end of
\* input), or with the same io::Error at every read, as a decoder over a
\* corrupt compressed stream does.
ReaderEnds == {"UnexpectedEof", "InvalidInput"}

\* A read that meets the end of the bytes fails with the reader's own
\* error; read_exact and read_varint pass it on as it is.
EndsWith(r, kind) ==
    IF ~r.ok /\ r.kind = "UnexpectedEof" THEN [r EXCEPT !.kind = kind] ELSE r

\* FileAttributes::read_from on the reader at position pos.
RecordAt(s, ends, pos) == EndsWith(FileAttributesReadFrom(s, pos), ends)

\* The positions at which the loop calls FileAttributes::read_from, from
\* pos on: the next call is made where the last one stopped.
RECURSIVE LoopPositions(_, _, _)
LoopPositionsNext(s, ends, pos, r) ==
    IF r.pos > pos THEN {pos} \cup LoopPositions(s, ends, r.pos) ELSE {pos}

LoopPositions(s, ends, pos) == LoopPositionsNext(s, ends, pos, RecordAt(s, ends, pos))

\* The reader with its bytes, how it ends, and what a record read at each
\* of these positions gives.
LoopInput(in, ends) ==
    [header |-> in.header, recs |-> in.recs, tail |-> in.tail, ends |-> ends,
     bytes |-> AttrStream(in),
     reads |-> [pos \in LoopPositions(AttrStream(in), ends, 4) |->
                   RecordAt(AttrStream(in), ends, pos)]]

LoopInit ==
    /\ attrInput \in {LoopInput(in, e) : in \in AttrInputs, e \in ReaderEnds}
    /\ attrResult = [status |-> "NotRead", attributes |-> <<>>, pos |-> 0]
    /\ ReaderIdle
    /\ ViewIdle
    /\ ExtIdle

\* reader.read_u32::<BigEndian>()? and the test of the magic number.
LoopMagic ==
    /\ attrResult.status = "NotRead"
    /\ attrResult' =
         IF ~ReadExact(attrInput.bytes, 0, 4).ok
         THEN [status |-> attrInput.ends, attributes |-> <<>>, pos |-> Len(attrInput.bytes)]
         ELSE IF U32BigEndian(ReadExact(attrInput.bytes, 0, 4).bytes) # BPC_ATTRIB_TYPE_XATTR
              THEN [status |-> "InvalidMagic", attributes |-> <<>>, pos |-> 4]
              ELSE [status |-> "Loop", attributes |-> <<>>, pos |-> 4]
    /\ UNCHANGED <<attrInput, readerVars, viewVars, extVars>>

\* What one iteration leaves: a record is pushed, UnexpectedEof breaks, any
\* other error is printed and the loop goes on.
LoopStep(r) ==
    IF r.ok
    THEN [status |-> "Loop", attributes |-> Append(attrResult.attributes, r.rec),
          pos |-> r.pos]
    ELSE IF r.kind = "UnexpectedEof"
         THEN [status |-> "Ok", attributes |-> attrResult.attributes, pos |-> r.pos]
         ELSE [status |-> "Loop", attributes |-> attrResult.attributes, pos |-> r.pos]

\* One iteration: match FileAttributes::read_from(reader).
LoopRecord ==
    /\ attrResult.status = "Loop"
    /\ attrResult' = LoopStep(attrInput.reads[attrResult.pos])
    /\ UNCHANGED <<attrInput, readerVars, viewVars, extVars>>

LoopNext ==
    \/ LoopMagic
    \/ LoopRecord

SpecLoop == LoopInit /\ [][LoopNext]_vars /\ WF_vars(LoopNext)

LoopReturned == attrResult.status \in {"Ok", "InvalidMagic", "UnexpectedEof", "InvalidInput"}

\* C25 (as stated): AttributeFile::read_from returns on every input stream,
\* also when a record fails to decode with an error other than end of
\* input and when the reader keeps returning the same error that is not
\* the end of input.
C25_ReadFromReturns == <>LoopReturned

\* On a reader that ends with the end of input, read_from returns.
C25_EofReturns == (attrInput.ends = "UnexpectedEof") => <>LoopReturned
(***************************************************************************)
(* Specification of the InterpretAdapter under its inflater: fill_buf in   *)
(* chunks of any size, consume of any amount, and the reset that           *)
(* read_some_bytes makes when the inflater has ended a frame               *)
(*                                                                         *)
(* rd.a       the adapter                                                  *)
(* delivered  the bytes the inflater has taken (consumed) so far           *)
(* lastRead   the last call on the adapter and the buffer it was about     *)
(***************************************************************************)
MaxChunk == 3

\* The pool files; the size of the chunks is chosen at every fill_buf.
AdapterPools ==
    {[frames |-> fs, tail |-> tl, cap |-> DefaultBufSize, eager |-> FALSE] :
        fs \in SeqsUpTo([header : {214, 215}, payload : Payloads], MaxFrames),
        tl \in PoolTails}

NoAdapterCall == [op |-> "new", buf |-> <<>>, amt |-> 0]

AdapterInit ==
    /\ pool \in AdapterPools
    /\ rd = ReaderNew
    /\ delivered = <<>>
    /\ lastRead = NoAdapterCall
    /\ DecodeIdle
    /\ ViewIdle
    /\ ExtIdle

\* The offsets in the file at which a frame ends (and the next one, or the
\* tail, begins).
RECURSIVE FrameEnds(_, _)
FrameEnds(frames, from) ==
    IF frames = <<>> THEN {}
    ELSE {from + Len(CompressFrame(Head(frames)))}
         \cup FrameEnds(Tail(frames), from + Len(CompressFrame(Head(frames))))

\* The inflater takes no byte beyond the end of its frame, and none once
\* it has ended the frame.
FrameRoom ==
    LET ends == {e \in FrameEnds(pool.frames, 0) : e > rd.a.pos}
    IN IF ends = {} \/ rd.dec.st = "done" THEN 0
       ELSE (CHOOSE e \in ends : \A o \in ends : e <= o) - rd.a.pos

AdapterUnchanged ==
    /\ UNCHANGED pool
    /\ UNCHANGED decodeVars
    /\ UNCHANGED viewVars
    /\ UNCHANGED extVars

\* fill_buf; the BufReader below refills its empty buffer with k bytes.
FillBuf(k) ==
    /\ rd.dec.some
    /\ lastRead.op # "fill_buf"
    /\ rd' = [rd EXCEPT !.a = AdapterFillBuf(PoolFile(pool), k, rd.a).a]
    /\ lastRead' = [op |-> "fill_buf", amt |-> 0,
                    buf |-> AdapterFillBuf(PoolFile(pool), k, rd.a).buf]
    /\ UNCHANGED delivered
    /\ AdapterUnchanged

\* consume(amt) after the inflater took amt bytes of the buffer.
Consume(amt) ==
    /\ lastRead.op = "fill_buf"
    /\ amt <= Len(lastRead.buf)
    /\ amt <= FrameRoom
    /\ rd' = [a |-> AdapterConsume(rd.a, amt),
              dec |-> [rd.dec EXCEPT !.st = IF amt > 0 /\ amt = FrameRoom
                                            THEN "done" ELSE @]]
    /\ delivered' = delivered \o SubSeq(lastRead.buf, 1, amt)
    /\ lastRead' = [op |-> "consume", buf |-> lastRead.buf, amt |-> amt]
    /\ AdapterUnchanged

\* read_some_bytes once the inflater has ended its frame: the adapter is
\* asked for what is left and reset when there is something.
FrameEnded(k) ==
    /\ rd.dec.some
    /\ lastRead.op = "consume"
    /\ rd.dec.st = "done"
    /\ rd' = IF AdapterFillBuf(PoolFile(pool), k, rd.a).buf = <<>>
             THEN [a |-> AdapterFillBuf(PoolFile(pool), k, rd.a).a, dec |-> NoDecoder]
             ELSE [a |-> AdapterReset(AdapterFillBuf(PoolFile(pool), k, rd.a).a),
                   dec |-> NewDecoder]
    /\ lastRead' = [op |-> IF AdapterFillBuf(PoolFile(pool), k, rd.a).buf = <<>>
                           THEN "end" ELSE "reset",
                    buf |-> <<>>, amt |-> 0]
    /\ UNCHANGED delivered
    /\ AdapterUnchanged

AdapterNext ==
    \/ \E k \in 1..MaxChunk : FillBuf(k)
    \/ \E amt \in 0..MaxChunk : Consume(amt)
    \/ \E k \in 1..MaxChunk : FrameEnded(k)

SpecAdapter == AdapterInit /\ [][AdapterNext]_vars

\* The first n bytes of the file as the inflater must get them: 0xd6 and
\* 0xd7 are 0x78 at the first place of a frame, every other byte is as in
\* the file.
HandedBytes(file, starts, n) ==
    [k \in 1..n |-> IF (k - 1) \in starts /\ file[k] \in {214, 215}
                    THEN ZlibHeader ELSE file[k]]

FrameStarts == {0} \cup FrameEnds(pool.frames, 0)

\* C26: for every split of the file into fill_buf chunks and every pattern
\* of consume calls, the bytes handed to the inflater are the bytes of the
\* file with 0xd6 or 0xd7 rewritten to 0x78 at the first byte of each frame
\* and nowhere else, also where 0xd6, 0xd7 or 0xb3 is the first byte of a
\* later chunk of a frame; the first-byte flag is set after the reset made
\* when a new frame begins, and only while no byte of the frame is taken.
C26_FirstByteOnly ==
    /\ rd.a.pos = Len(delivered)
    /\ delivered = HandedBytes(PoolFile(pool), FrameStarts, Len(delivered))
    /\ lastRead.op = "reset" => rd.a.first /\ ~rd.a.temp.some
    /\ rd.a.first => rd.a.pos \in FrameStarts
    /\ (lastRead.op = "fill_buf" /\ lastRead.buf # <<>>) => ~rd.a.first

\* Inside the second frame a chunk that begins with 0xd7 has been handed
\* on as it is, the first bytes of both frames having been rewritten.
C26_Witness ==
    /\ Len(pool.frames) = 2
    /\ lastRead.op = "consume"
    /\ lastRead.amt >= 1
    /\ lastRead.buf[1] = 215
    /\ Len(delivered) - lastRead.amt \notin FrameStarts
    /\ Len(delivered) - lastRead.amt > Len(CompressFrame(pool.frames[1]))
    /\ delivered[1] = ZlibHeader
    /\ delivered[Len(CompressFrame(pool.frames[1])) + 1] = ZlibHeader
(***************************************************************************)
(* Claims on the reserved inode numbers of the adapter                     *)
(***************************************************************************)
\* The inode of the root and the inode list_attributes answers as the
\* parent of the root.
ReservedInos == {0, RootIno}

\* C27 (as stated): generate_new_ino gives no path other than the root the
\* inode number 1 or 0, so that no entry given out by lookup or readdir is
\* taken for the root by a later request on its inode.
C27_NoReservedInode ==
    /\ \A i \in DOMAIN bpcfs.inodes : i \notin ReservedInos
    /\ \A e \in exposed : e.path # <<>> => e.ino \notin ReservedInos
(***************************************************************************)
(* Specification of the rendering of an inode in get_inode                 *)
(***************************************************************************)
MaxSmallInode == 64

\* The inodes rendered: the small ones, and inodes of 2, 3 and 4 bytes with
\* zero bytes at every place.
RenderedInodes ==
    (0..MaxSmallInode) \cup {255, 256, 258, 513, 65535, 65536, 65537, 16777216, 16777217,
                             2147483647}

InodeStrInit ==
    /\ call \in {[fn |-> "get_inode", inode |-> i] : i \in RenderedInodes}
    /\ ret = NoRet
    /\ PoolIdle
    /\ fileOut = NoReadFile
    /\ HostsIdle
    /\ SearchIdle
    /\ FsIdle
    /\ DecodeIdle
    /\ ReaderIdle
    /\ ViewIdle

\* inode.to_le_bytes(), the truncation, vec_to_hex_string.
RenderInode ==
    /\ call.fn = "get_inode"
    /\ ~ret.done
    /\ ret' = [done |-> TRUE, inode_str |-> InodeStr(call.inode)]
    /\ HelperUnchanged

InodeStrNext == RenderInode

SpecInodeStr == InodeStrInit /\ [][InodeStrNext]_vars

\* The little-endian bytes of n up to its last non-zero byte.
RECURSIVE LeWithoutTrailingZeros(_)
LeWithoutTrailingZeros(n) ==
    IF n = 0 THEN <<>> ELSE <<n % 256>> \o LeWithoutTrailingZeros(n \div 256)

\* Two lower-case hex digits per byte.
RECURSIVE HexOf(_)
HexOf(bytes) ==
    IF bytes = <<>> THEN <<>>
    ELSE LET d(v) == IF v < 10 THEN 48 + v ELSE 97 + (v - 10)
         IN <<d(Head(bytes) \div 16), d(Head(bytes) % 16)>> \o HexOf(Tail(bytes))

\* C28 (as stated): get_inode renders an inode as the hex encoding of its
\* 8-byte little-endian form with the trailing zero bytes removed (0x0102
\* gives "0201"); the inode 0 renders to the empty string.
C28_InodeHex ==
    (call.fn = "get_inode" /\ ret.done) =>
        ret.inode_str = HexOf(LeWithoutTrailingZeros(call.inode))

\* For every inode but 0 the rendering is the one the claim states.
C28_NonZeroInodeHex ==
    (call.fn = "get_inode" /\ ret.done /\ call.inode # 0) =>
        ret.inode_str = HexOf(LeWithoutTrailingZeros(call.inode))
(***************************************************************************)
(* Claims on the entries of the listings the adapter keeps and returns     *)
(***************************************************************************)
\* The entries of the listings in the LRU, each with the inode d of its
\* directory. The listing under the key 0 is the synthetic ".." that
\* answers getattr on the root; it is the listing of no directory.
EntriesOf(d, files) ==
    { [d |-> d, name |-> files[j].name, ino |-> files[j].ino, kind |-> files[j].kind,
       size |-> files[j].size] :
        j \in 1..Len(files) }

CachedEntries ==
    UNION { EntriesOf(bpcfs.cache[i].key, bpcfs.cache[i].val) :
              i \in {k \in 1..Len(bpcfs.cache) : bpcfs.cache[k].key # 0} }

\* getattr on the inode of the entry answers with the attributes of the entry.
FoundAgain(st, e) ==
    /\ get_attr(st, fsEnv, e.ino).status = "Ok"
    /\ get_attr(st, fsEnv, e.ino).attr =
          [some |-> TRUE, ino |-> e.ino, kind |-> e.kind, size |-> e.size]

Evicted(st) == [st EXCEPT !.cache = <<>>]

\* C29 (as stated): after any sequence of lookup, readdir and getattr, every
\* inode of a cached or returned listing of directory d is a key of the
\* inode map, stored with d's path followed by the name of the entry and
\* with d as parent_ino, and getattr on the inode finds the same entry in
\* the listing of the parent, also after that listing left the LRU.
C29_ListedInodes ==
    /\ \A e \in CachedEntries :
          /\ e.ino \in DOMAIN bpcfs.inodes
          /\ bpcfs.inodes[e.ino].path = Append(DirPath(bpcfs, e.d), e.name)
          /\ bpcfs.inodes[e.ino].parent_ino = e.d
          /\ FoundAgain(bpcfs, e)
          /\ FoundAgain(Evicted(bpcfs), e)
    /\ \A e \in exposed : e.path # <<>> =>
          /\ e.ino \in DOMAIN bpcfs.inodes
          /\ bpcfs.inodes[e.ino].path = e.path
          /\ DirPath(bpcfs, bpcfs.inodes[e.ino].parent_ino) = ParentPath(e.path)
          /\ get_attr(bpcfs, fsEnv, e.ino).attr.some
          /\ get_attr(bpcfs, fsEnv, e.ino).attr.ino = e.ino
          /\ get_attr(Evicted(bpcfs), fsEnv, e.ino).attr.some
          /\ get_attr(Evicted(bpcfs), fsEnv, e.ino).attr.ino = e.ino

\* C29 apart from the numbers 0 and 1: where no path is stored under the
\* inode of the root or of its parent and no request has ended the adapter.
C29_ListedInodesAboveRoot ==
    (~bpcfs.crashed /\ \A i \in DOMAIN bpcfs.inodes : i \notin ReservedInos) => C29_ListedInodes
(***************************************************************************)
(* Claims on the TTL of the attributes the adapter reports                 *)
(***************************************************************************)
\* The TTL of an entry by its layer: hosts are one level under the root,
\* backups two levels, everything else deeper.
LayerTtl(path) ==
    IF Len(path) = 1 THEN TTL_HOST
    ELSE IF Len(path) = 2 THEN TTL_BACKUPS
    ELSE TTL_REST

\* The entry a lookup or a getattr has answered with.
Answered(op) == dirOut.called /\ dirOut.op = op /\ dirOut.status = "Ok" /\ dirOut.reply # <<>>

\* C30 (as stated): the TTL reported with an entry depends only on the layer
\* of the entry, 86,400 s for a host, 3,600 s for a backup and 1,000,000 s
\* below, and lookup(parent, name) and getattr(ino) report the same TTL for
\* the same inode.
C30_TtlByLayer ==
    /\ Answered("lookup") =>
          /\ dirOut.ttl = LayerTtl(Append(DirPath(bpcfs, dirOut.ino), dirOut.reply[1].name))
          /\ get_attr(bpcfs, fsEnv, dirOut.reply[1].ino).attr.some =>
                get_attr(bpcfs, fsEnv, dirOut.reply[1].ino).ttl = dirOut.ttl
    /\ Answered("getattr") /\ dirOut.ino # RootIno =>
          dirOut.ttl = LayerTtl(bpcfs.inodes[dirOut.ino].path)

\* The half of C30 on lookup alone: the TTL lookup reports is the one of the
\* layer of the entry.
C30_LookupTtlByLayer ==
    Answered("lookup") =>
        dirOut.ttl = LayerTtl(Append(DirPath(bpcfs, dirOut.ino), dirOut.reply[1].name))
====
